---- MODULE Spec2Model ----
(***************************************************************************)
(* A model of jisu, a JavaScript tokeniser and parser.                     *)
(*                                                                         *)
(* Source text is a sequence of one-character strings.  The tokeniser is   *)
(* a state machine: one action per iteration of the loop of                *)
(* Tokeniser.tokenise, one for its throw and one for its return.  The      *)
(* parser is a family of recursive operators over a parser record          *)
(* (cursor, node-start stack, error), applied by the action Parse.         *)
(***************************************************************************)
EXTENDS Integers, Sequences, FiniteSets, TLC

VARIABLES
    input,          \* Tokeniser.input / Parser.input: the source characters
    omitLocations,  \* ParserOptions.omitLocations
    position,       \* Tokeniser.position
    lineNumber,     \* Tokeniser.lineNumber
    columnNumber,   \* Tokeniser.columnNumber
    tokenStart,     \* Tokeniser.tokenStart
    tokens,         \* Tokeniser.tokens
    pc,             \* "new" | "tokenise" | "parse" | "done" | "thrown"
    thrown,         \* the error tokenise raised, if any
    result          \* the outcome of Parser.parse, once pc = "done"

vars == <<input, omitLocations, position, lineNumber, columnNumber,
          tokenStart, tokens, pc, thrown, result>>

(***************************************************************************)
(* Characters.                                                             *)
(***************************************************************************)
LowerChars == <<"a", "b", "c", "d", "e", "f", "g", "h", "i", "j", "k", "l", "m",
                "n", "o", "p", "q", "r", "s", "t", "u", "v", "w", "x", "y", "z">>
UpperChars == <<"A", "B", "C", "D", "E", "F", "G", "H", "I", "J", "K", "L", "M",
                "N", "O", "P", "Q", "R", "S", "T", "U", "V", "W", "X", "Y", "Z">>
DigitChars == <<"0", "1", "2", "3", "4", "5", "6", "7", "8", "9">>

Range(s) == { s[i] : i \in 1..Len(s) }
IndexOf(s, c) == CHOOSE i \in 1..Len(s) : s[i] = c

\* The character U+0060 cannot be written in a TLA+ string; this stands for it.
BACKTICK == "backtick"

\* String.prototype.charCodeAt for the characters the model uses.
CharCode(c) ==
    IF c \in Range(DigitChars) THEN 47 + IndexOf(DigitChars, c)
    ELSE IF c \in Range(UpperChars) THEN 64 + IndexOf(UpperChars, c)
    ELSE IF c \in Range(LowerChars) THEN 96 + IndexOf(LowerChars, c)
    ELSE CASE c = "\t" -> 9   [] c = "\n" -> 10  [] c = "\r" -> 13
           [] c = " " -> 32   [] c = "!" -> 33   [] c = "\"" -> 34
           [] c = "#" -> 35   [] c = "$" -> 36   [] c = "%" -> 37
           [] c = "&" -> 38   [] c = "'" -> 39   [] c = "(" -> 40
           [] c = ")" -> 41   [] c = "*" -> 42   [] c = "+" -> 43
           [] c = "," -> 44   [] c = "-" -> 45   [] c = "." -> 46
           [] c = "/" -> 47   [] c = ":" -> 58   [] c = ";" -> 59
           [] c = "<" -> 60   [] c = "=" -> 61   [] c = ">" -> 62
           [] c = "?" -> 63   [] c = "@" -> 64   [] c = "[" -> 91
           [] c = "\\" -> 92  [] c = "]" -> 93   [] c = "^" -> 94
           [] c = "_" -> 95   [] c = BACKTICK -> 96 [] c = "{" -> 123
           [] c = "|" -> 124  [] c = "}" -> 125  [] c = "~" -> 126

\* String.prototype.charAt with a zero-based index: "" past the end.
charAt(str, i) == IF i >= 0 /\ i < Len(str) THEN str[i + 1] ELSE ""

\* String.prototype.substring(from) with a zero-based index.
substring(str, from) == SubSeq(str, from + 1, Len(str))

\* String.prototype.startsWith.
startsWith(str, prefix) ==
    /\ Len(prefix) <= Len(str)
    /\ SubSeq(str, 1, Len(prefix)) = prefix

(***************************************************************************)
(* Token types: a TokenType is represented by its name.                    *)
(***************************************************************************)
\* TokenType.name as characters, for the keywords and the operators: the string
\* each keywordMatcher is built with.
Chars(name) ==
    CASE name = "async" -> <<"a", "s", "y", "n", "c">>
      [] name = "await" -> <<"a", "w", "a", "i", "t">>
      [] name = "break" -> <<"b", "r", "e", "a", "k">>
      [] name = "case" -> <<"c", "a", "s", "e">>
      [] name = "catch" -> <<"c", "a", "t", "c", "h">>
      [] name = "const" -> <<"c", "o", "n", "s", "t">>
      [] name = "continue" -> <<"c", "o", "n", "t", "i", "n", "u", "e">>
      [] name = "debugger" -> <<"d", "e", "b", "u", "g", "g", "e", "r">>
      [] name = "default" -> <<"d", "e", "f", "a", "u", "l", "t">>
      [] name = "delete" -> <<"d", "e", "l", "e", "t", "e">>
      [] name = "do" -> <<"d", "o">>
      [] name = "else" -> <<"e", "l", "s", "e">>
      [] name = "false" -> <<"f", "a", "l", "s", "e">>
      [] name = "finally" -> <<"f", "i", "n", "a", "l", "l", "y">>
      [] name = "for" -> <<"f", "o", "r">>
      [] name = "function" -> <<"f", "u", "n", "c", "t", "i", "o", "n">>
      [] name = "if" -> <<"i", "f">>
      [] name = "instanceof" -> <<"i", "n", "s", "t", "a", "n", "c", "e", "o", "f">>
      [] name = "in" -> <<"i", "n">>
      [] name = "let" -> <<"l", "e", "t">>
      [] name = "new" -> <<"n", "e", "w">>
      [] name = "null" -> <<"n", "u", "l", "l">>
      [] name = "return" -> <<"r", "e", "t", "u", "r", "n">>
      [] name = "super" -> <<"s", "u", "p", "e", "r">>
      [] name = "switch" -> <<"s", "w", "i", "t", "c", "h">>
      [] name = "this" -> <<"t", "h", "i", "s">>
      [] name = "throw" -> <<"t", "h", "r", "o", "w">>
      [] name = "true" -> <<"t", "r", "u", "e">>
      [] name = "try" -> <<"t", "r", "y">>
      [] name = "typeof" -> <<"t", "y", "p", "e", "o", "f">>
      [] name = "var" -> <<"v", "a", "r">>
      [] name = "void" -> <<"v", "o", "i", "d">>
      [] name = "while" -> <<"w", "h", "i", "l", "e">>
      [] name = "with" -> <<"w", "i", "t", "h">>
      [] name = "yield" -> <<"y", "i", "e", "l", "d">>
      [] name = "<" -> <<"<">>
      [] name = "<=" -> <<"<", "=">>
      [] name = ">" -> <<">">>
      [] name = ">=" -> <<">", "=">>
      [] name = "<<" -> <<"<", "<">>
      [] name = ">>" -> <<">", ">">>
      [] name = ">>>" -> <<">", ">", ">">>
      [] name = "+" -> <<"+">>
      [] name = "-" -> <<"-">>
      [] name = "*" -> <<"*">>
      [] name = "/" -> <<"/">>
      [] name = "%" -> <<"%">>
      [] name = "**" -> <<"*", "*">>
      [] name = "|" -> <<"|">>
      [] name = "^" -> <<"^">>
      [] name = "&" -> <<"&">>
      [] name = "==" -> <<"=", "=">>
      [] name = "!=" -> <<"!", "=">>
      [] name = "===" -> <<"=", "=", "=">>
      [] name = "!==" -> <<"!", "=", "=">>
      [] name = "||" -> <<"|", "|">>
      [] name = "&&" -> <<"&", "&">>
      [] name = "??" -> <<"?", "?">>
      [] name = "=" -> <<"=">>
      [] name = "+=" -> <<"+", "=">>
      [] name = "-=" -> <<"-", "=">>
      [] name = "*=" -> <<"*", "=">>
      [] name = "/=" -> <<"/", "=">>
      [] name = "%=" -> <<"%", "=">>
      [] name = "**=" -> <<"*", "*", "=">>
      [] name = "<<=" -> <<"<", "<", "=">>
      [] name = ">>=" -> <<">", ">", "=">>
      [] name = ">>>=" -> <<">", ">", ">", "=">>
      [] name = "|=" -> <<"|", "=">>
      [] name = "^=" -> <<"^", "=">>
      [] name = "&=" -> <<"&", "=">>
      [] name = "||=" -> <<"|", "|", "=">>
      [] name = "&&=" -> <<"&", "&", "=">>
      [] name = "??=" -> <<"?", "?", "=">>

\* The token types created with isKeyword: true.
KeywordTypes ==
    {"async", "await", "break", "case", "catch", "const", "continue", "debugger",
     "default", "delete", "do", "else", "false", "finally", "for", "function",
     "if", "let", "new", "null", "return", "super", "switch", "this", "throw",
     "true", "try", "typeof", "var", "void", "while", "with", "yield",
     "instanceof"}

variableDeclarationKindTokens == {"var", "const", "let"}

booleanValueTokens == {"true", "false"}

assignmentOperatorTokens ==
    {"=", "+=", "-=", "*=", "/=", "%=", "**=", "<<=", ">>=", ">>>=", "|=", "^=",
     "&=", "||=", "&&=", "??="}

unaryOperatorTokens == {"+", "-", "!", "~", "typeof", "void", "delete", "throw"}

updateOperatorTokens == {"++", "--"}

binaryOperatorTokens ==
    {"<", "<=", ">", ">=", "<<", ">>", ">>>", "+", "-", "*", "/", "%", "**", "|",
     "^", "&", "==", "!=", "===", "!==", "in", "instanceof"}

logicalOperatorTokens == {"||", "&&", "??"}

groupedOperatorTokens == binaryOperatorTokens \cup logicalOperatorTokens

\* TokenType.precedence of the operator tokens (tt); 0 where the type has none.
precedence(type) ==
    IF type = "," THEN 1
    ELSE IF type \in assignmentOperatorTokens THEN 2
    ELSE IF type \in {"||", "??"} THEN 4
    ELSE IF type = "&&" THEN 5
    ELSE IF type = "|" THEN 6
    ELSE IF type = "^" THEN 7
    ELSE IF type = "&" THEN 8
    ELSE IF type \in {"==", "!=", "===", "!=="} THEN 9
    ELSE IF type \in {"in", "instanceof", "<", "<=", ">", ">="} THEN 10
    ELSE IF type \in {"<<", ">>", ">>>"} THEN 11
    ELSE IF type \in {"+", "-"} THEN 12
    ELSE IF type \in {"*", "/", "%"} THEN 13
    ELSE IF type = "**" THEN 14
    ELSE IF type \in {"!", "~"} THEN 15
    ELSE IF type \in {"[", "]"} THEN 17
    ELSE IF type \in {".", "(", ")"} THEN 18
    ELSE 0

\* No token type is right-associative.
rightAssociative_None(type) == FALSE

\* TokenType.rightAssociative.
rightAssociative(type) ==
    type \in assignmentOperatorTokens \cup {"**", "!", "~"}

(***************************************************************************)
(* Token matchers (tokenMatcher.ts).  A match result is a MatchFailure or  *)
(* a MatchSuccess carrying the length consumed and the PartialToken.       *)
(***************************************************************************)
PartialToken(type, value) == [type |-> type, value |-> value]

MatchFailure == [matched |-> FALSE]

MatchSuccess(length, type, value) ==
    [matched |-> TRUE, length |-> length, token |-> PartialToken(type, value)]

\* isIdentifierCharCode: the first range ends at 56.
isIdentifierCharCode(charCode) ==
    \/ (charCode >= 48 /\ charCode <= 56)
    \/ (charCode >= 65 /\ charCode <= 90)
    \/ (charCode >= 97 /\ charCode <= 122)
    \/ charCode = 36
    \/ charCode = 95

characterMatcher(type, char, str) ==
    IF charAt(str, 0) = char
    THEN MatchSuccess(1, type, <<char>>)
    ELSE MatchFailure

stringMatcher(type, text, str) ==
    IF startsWith(str, text)
    THEN MatchSuccess(Len(text), type, text)
    ELSE MatchFailure

\* keywordMatcher: charCodeAt past the end is NaN, which no comparison accepts.
keywordMatcher(type, text, str) ==
    IF /\ startsWith(str, text)
       /\ ~ ( /\ Len(text) < Len(str)
              /\ isIdentifierCharCode(CharCode(str[Len(text) + 1])) )
    THEN MatchSuccess(Len(text), type, text)
    ELSE MatchFailure

\* The length of the longest prefix of str whose characters are all in class.
RECURSIVE PrefixRun(_, _)
PrefixRun(str, class) ==
    IF str # <<>> /\ Head(str) \in class
    THEN 1 + PrefixRun(Tail(str), class)
    ELSE 0

IdentifierStartClass == Range(LowerChars) \cup Range(UpperChars) \cup {"_", "$"}
IdentifierPartClass == IdentifierStartClass \cup Range(DigitChars)

\* regexMatcher(tt.Identifier, /^[a-zA-Z_$][a-zA-Z0-9_$]*/)
identifierRegexMatcher(str) ==
    IF str # <<>> /\ Head(str) \in IdentifierStartClass
    THEN LET n == 1 + PrefixRun(Tail(str), IdentifierPartClass)
         IN MatchSuccess(n, "identifier", SubSeq(str, 1, n))
    ELSE MatchFailure

\* A number matcher that succeeds on an empty run of digits too.
numberRegexMatcher_EmptyRun(str) ==
    LET n == PrefixRun(str, Range(DigitChars))
    IN MatchSuccess(n, "number", SubSeq(str, 1, n))

\* regexMatcher(tt.Number, /^[0-9]+/)
numberRegexMatcher(str) ==
    LET n == PrefixRun(str, Range(DigitChars))
    IN IF n > 0 THEN MatchSuccess(n, "number", SubSeq(str, 1, n)) ELSE MatchFailure

matchPlusTokens(str) ==
    IF charAt(str, 0) = "+"
    THEN IF charAt(str, 1) = "+" THEN MatchSuccess(2, "++", <<"+", "+">>)
         ELSE IF charAt(str, 1) = "=" THEN MatchSuccess(2, "+=", <<"+", "=">>)
         ELSE MatchSuccess(1, "+", <<"+">>)
    ELSE MatchFailure

matchMinusTokens(str) ==
    IF charAt(str, 0) = "-"
    THEN IF charAt(str, 1) = "-" THEN MatchSuccess(2, "--", <<"-", "-">>)
         ELSE IF charAt(str, 1) = "=" THEN MatchSuccess(2, "-=", <<"-", "=">>)
         ELSE MatchSuccess(1, "-", <<"-">>)
    ELSE MatchFailure

matchStarTokens(str) ==
    IF charAt(str, 0) = "*"
    THEN IF charAt(str, 1) = "*"
         THEN IF charAt(str, 2) = "=" THEN MatchSuccess(3, "**=", <<"*", "*", "=">>)
              ELSE MatchSuccess(2, "**", <<"*", "*">>)
         ELSE IF charAt(str, 1) = "=" THEN MatchSuccess(2, "*=", <<"*", "=">>)
         ELSE MatchSuccess(1, "*", <<"*">>)
    ELSE MatchFailure

matchDivideTokens(str) ==
    IF charAt(str, 0) = "/"
    THEN IF charAt(str, 1) = "=" THEN MatchSuccess(2, "/=", <<"/", "=">>)
         ELSE MatchSuccess(1, "/", <<"/">>)
    ELSE MatchFailure

matchModulusTokens(str) ==
    IF charAt(str, 0) = "%"
    THEN IF charAt(str, 1) = "=" THEN MatchSuccess(2, "%=", <<"%", "=">>)
         ELSE MatchSuccess(1, "%", <<"%">>)
    ELSE MatchFailure

matchLeftArrowTokens(str) ==
    IF charAt(str, 0) = "<"
    THEN IF charAt(str, 1) = "<"
         THEN IF charAt(str, 2) = "=" THEN MatchSuccess(3, "<<=", <<"<", "<", "=">>)
              ELSE MatchSuccess(2, "<<", <<"<", "<">>)
         ELSE IF charAt(str, 1) = "=" THEN MatchSuccess(2, "<=", <<"<", "=">>)
         ELSE MatchSuccess(1, "<", <<"<">>)
    ELSE MatchFailure

matchRightArrowTokens(str) ==
    IF charAt(str, 0) = ">"
    THEN IF charAt(str, 1) = ">"
         THEN IF charAt(str, 2) = ">"
              THEN IF charAt(str, 3) = "="
                   THEN MatchSuccess(4, ">>>=", <<">", ">", ">", "=">>)
                   ELSE MatchSuccess(3, ">>>", <<">", ">", ">">>)
              ELSE IF charAt(str, 2) = "=" THEN MatchSuccess(3, ">>=", <<">", ">", "=">>)
              ELSE MatchSuccess(2, ">>", <<">", ">">>)
         ELSE IF charAt(str, 1) = "=" THEN MatchSuccess(2, ">=", <<">", "=">>)
         ELSE MatchSuccess(1, ">", <<">">>)
    ELSE MatchFailure

\* matchEqualTokens: `===`, `==`, `=`; no branch produces tt.Arrow.
matchEqualTokens(str) ==
    IF charAt(str, 0) = "="
    THEN IF charAt(str, 1) = "="
         THEN IF charAt(str, 2) = "=" THEN MatchSuccess(3, "===", <<"=", "=", "=">>)
              ELSE MatchSuccess(2, "==", <<"=", "=">>)
         ELSE MatchSuccess(1, "=", <<"=">>)
    ELSE MatchFailure

matchExclamationTokens(str) ==
    IF charAt(str, 0) = "!"
    THEN IF charAt(str, 1) = "="
         THEN IF charAt(str, 2) = "=" THEN MatchSuccess(3, "!==", <<"!", "=", "=">>)
              ELSE MatchSuccess(2, "!=", <<"!", "=">>)
         ELSE MatchSuccess(1, "!", <<"!">>)
    ELSE MatchFailure

matchBarTokens(str) ==
    IF charAt(str, 0) = "|"
    THEN IF charAt(str, 1) = "|"
         THEN IF charAt(str, 2) = "=" THEN MatchSuccess(3, "||=", <<"|", "|", "=">>)
              ELSE MatchSuccess(2, "||", <<"|", "|">>)
         ELSE IF charAt(str, 1) = "=" THEN MatchSuccess(2, "|=", <<"|", "=">>)
         ELSE MatchSuccess(1, "|", <<"|">>)
    ELSE MatchFailure

matchCaretTokens(str) ==
    IF charAt(str, 0) = "^"
    THEN IF charAt(str, 1) = "=" THEN MatchSuccess(2, "^=", <<"^", "=">>)
         ELSE MatchSuccess(1, "^", <<"^">>)
    ELSE MatchFailure

matchAmpersandTokens(str) ==
    IF charAt(str, 0) = "&"
    THEN IF charAt(str, 1) = "&"
         THEN IF charAt(str, 2) = "=" THEN MatchSuccess(3, "&&=", <<"&", "&", "=">>)
              ELSE MatchSuccess(2, "&&", <<"&", "&">>)
         ELSE IF charAt(str, 1) = "=" THEN MatchSuccess(2, "&=", <<"&", "=">>)
         ELSE MatchSuccess(1, "&", <<"&">>)
    ELSE MatchFailure

matchQuestionTokens(str) ==
    IF charAt(str, 0) = "?"
    THEN IF charAt(str, 1) = "?"
         THEN IF charAt(str, 2) = "=" THEN MatchSuccess(3, "??=", <<"?", "?", "=">>)
              ELSE MatchSuccess(2, "??", <<"?", "?">>)
         ELSE MatchSuccess(1, "?", <<"?">>)
    ELSE MatchFailure

\* The loop of matchSingleLineString / matchTemplateString from index pos
\* (zero-based): the value read so far and the last character appended.
RECURSIVE quotedLoop(_, _, _, _, _, _)
quotedLoop(str, firstChar, pos, value, lastChar, stopAtLineFeed) ==
    IF pos >= Len(str) THEN MatchFailure
    ELSE LET char == charAt(str, pos)
         IN IF char = firstChar /\ lastChar # "\\"
            THEN [matched |-> TRUE, value |-> value]
            ELSE IF stopAtLineFeed /\ char = "\n" THEN MatchFailure
            ELSE quotedLoop(str, firstChar, pos + 1, Append(value, char), char,
                            stopAtLineFeed)

matchSingleLineString(str) ==
    LET firstChar == charAt(str, 0)
    IN IF firstChar = "'" \/ firstChar = "\""
       THEN LET r == quotedLoop(str, firstChar, 1, <<>>, "", TRUE)
            IN IF r.matched
               THEN MatchSuccess(Len(r.value) + 2, "string", r.value)
               ELSE MatchFailure
       ELSE MatchFailure

matchTemplateString(str) ==
    LET firstChar == charAt(str, 0)
    IN IF firstChar = BACKTICK
       THEN LET r == quotedLoop(str, firstChar, 1, <<>>, "", FALSE)
            IN IF r.matched
               THEN MatchSuccess(Len(r.value) + 2, "templateString", r.value)
               ELSE MatchFailure
       ELSE MatchFailure

\* A matcher of the map, as data: its kind and what it was built with.
KW(name) == [kind |-> "keyword", type |-> name, text |-> Chars(name)]
CH(char) == [kind |-> "character", type |-> char, text |-> <<char>>]
FN(name) == [kind |-> "function", type |-> name, text |-> <<>>]

\* The key of matcherMap for all other characters.
OTHER_CHARS_KEY == "<other>"

\* matcherMap.has(key)
matcherMapHas(key) ==
    key \in {"a", "b", "c", "d", "e", "f", "i", "l", "n", "r", "s", "t", "v", "w",
             "y", ",", "+", "-", "*", "/", "%", "<", ">", "=", "!", "|", "^", "&",
             "?", "~", "[", "]", "(", ")", "{", "}", ":", ";", ".", "'", "\"",
             BACKTICK}

\* matcherMap.get(key): the matchers of one first character, in order.
matcherMap(key) ==
    CASE key = "a" -> <<KW("async"), KW("await")>>
      [] key = "b" -> <<KW("break")>>
      [] key = "c" -> <<KW("case"), KW("catch"), KW("const"), KW("continue")>>
      [] key = "d" -> <<KW("debugger"), KW("default"), KW("delete"), KW("do")>>
      [] key = "e" -> <<KW("else")>>
      [] key = "f" -> <<KW("false"), KW("finally"), KW("for"), KW("function")>>
      [] key = "i" -> <<KW("if"), KW("instanceof"), KW("in")>>
      [] key = "l" -> <<KW("let")>>
      [] key = "n" -> <<KW("new"), KW("null")>>
      [] key = "r" -> <<KW("return")>>
      [] key = "s" -> <<KW("super"), KW("switch")>>
      [] key = "t" -> <<KW("this"), KW("throw"), KW("true"), KW("try"), KW("typeof")>>
      [] key = "v" -> <<KW("var"), KW("void")>>
      [] key = "w" -> <<KW("while"), KW("with")>>
      [] key = "y" -> <<KW("yield")>>
      [] key = "," -> <<CH(",")>>
      [] key = "+" -> <<FN("matchPlusTokens")>>
      [] key = "-" -> <<FN("matchMinusTokens")>>
      [] key = "*" -> <<FN("matchStarTokens")>>
      [] key = "/" -> <<FN("matchDivideTokens")>>
      [] key = "%" -> <<FN("matchModulusTokens")>>
      [] key = "<" -> <<FN("matchLeftArrowTokens")>>
      [] key = ">" -> <<FN("matchRightArrowTokens")>>
      [] key = "=" -> <<FN("matchEqualTokens")>>
      [] key = "!" -> <<FN("matchExclamationTokens")>>
      [] key = "|" -> <<FN("matchBarTokens")>>
      [] key = "^" -> <<FN("matchCaretTokens")>>
      [] key = "&" -> <<FN("matchAmpersandTokens")>>
      [] key = "?" -> <<FN("matchQuestionTokens")>>
      [] key = "~" -> <<CH("~")>>
      [] key = "[" -> <<CH("[")>>
      [] key = "]" -> <<CH("]")>>
      [] key = "(" -> <<CH("(")>>
      [] key = ")" -> <<CH(")")>>
      [] key = "{" -> <<CH("{")>>
      [] key = "}" -> <<CH("}")>>
      [] key = ":" -> <<CH(":")>>
      [] key = ";" -> <<CH(";")>>
      [] key = "." -> <<[kind |-> "string", type |-> "...", text |-> <<".", ".", ".">>],
                        CH(".")>>
      [] key = "'" -> <<FN("matchSingleLineString")>>
      [] key = "\"" -> <<FN("matchSingleLineString")>>
      [] key = BACKTICK -> <<FN("matchTemplateString")>>
      [] key = OTHER_CHARS_KEY -> <<FN("identifierRegexMatcher"),
                                    FN("numberRegexMatcher")>>

\* Calling one matcher of the map on the remaining input.
applyMatcher(m, str) ==
    CASE m.kind = "keyword" -> keywordMatcher(m.type, m.text, str)
      [] m.kind = "character" -> characterMatcher(m.type, m.text[1], str)
      [] m.kind = "string" -> stringMatcher(m.type, m.text, str)
      [] m.type = "matchPlusTokens" -> matchPlusTokens(str)
      [] m.type = "matchMinusTokens" -> matchMinusTokens(str)
      [] m.type = "matchStarTokens" -> matchStarTokens(str)
      [] m.type = "matchDivideTokens" -> matchDivideTokens(str)
      [] m.type = "matchModulusTokens" -> matchModulusTokens(str)
      [] m.type = "matchLeftArrowTokens" -> matchLeftArrowTokens(str)
      [] m.type = "matchRightArrowTokens" -> matchRightArrowTokens(str)
      [] m.type = "matchEqualTokens" -> matchEqualTokens(str)
      [] m.type = "matchExclamationTokens" -> matchExclamationTokens(str)
      [] m.type = "matchBarTokens" -> matchBarTokens(str)
      [] m.type = "matchCaretTokens" -> matchCaretTokens(str)
      [] m.type = "matchAmpersandTokens" -> matchAmpersandTokens(str)
      [] m.type = "matchQuestionTokens" -> matchQuestionTokens(str)
      [] m.type = "matchSingleLineString" -> matchSingleLineString(str)
      [] m.type = "matchTemplateString" -> matchTemplateString(str)
      [] m.type = "identifierRegexMatcher" -> identifierRegexMatcher(str)
      [] m.type = "numberRegexMatcher" -> numberRegexMatcher(str)

\* `for (const matcher of matchers)`: the first successful match from index i.
RECURSIVE firstMatch(_, _, _)
firstMatch(matchers, i, str) ==
    IF i > Len(matchers) THEN MatchFailure
    ELSE LET r == applyMatcher(matchers[i], str)
         IN IF r.matched THEN r ELSE firstMatch(matchers, i + 1, str)

\* The two lookups of tokenise on the remaining input: the bucket of the next
\* character, then the bucket of all other characters.
matchInput(inputStr) ==
    LET nextChar == charAt(inputStr, 0)
        first == IF matcherMapHas(nextChar)
                 THEN firstMatch(matcherMap(nextChar), 1, inputStr)
                 ELSE MatchFailure
    IN IF first.matched THEN first
       ELSE firstMatch(matcherMap(OTHER_CHARS_KEY), 1, inputStr)

(***************************************************************************)
(* The tokeniser (Tokeniser).  Its mutable fields other than the token     *)
(* list travel together as a cursor record.                                *)
(***************************************************************************)
SourcePosition(line, column, pos) ==
    [line |-> line, column |-> column, position |-> pos]

SourceLocation(start, end) == [start |-> start, end |-> end]

\* PartialToken.toToken
toToken(partialToken, location) ==
    [type |-> partialToken.type, value |-> partialToken.value,
     location |-> location]

Cursor(pos, line, column, start) ==
    [position |-> pos, lineNumber |-> line, columnNumber |-> column,
     tokenStart |-> start]

\* Tokeniser.advance
advance(c, amount) ==
    [c EXCEPT !.position = @ + amount, !.columnNumber = @ + amount]

\* Tokeniser.readWhitespace
\* White space is never skipped.
readWhitespace_None(str, c) == c

RECURSIVE readWhitespace(_, _)
readWhitespace(str, c) ==
    IF c.position >= Len(str) THEN c
    ELSE LET charCode == CharCode(charAt(str, c.position))
         IN IF charCode \in {32, 13, 9}
            THEN readWhitespace(str,
                    [advance(c, 1) EXCEPT
                        !.tokenStart.position = @ + 1,
                        !.tokenStart.column = @ + 1])
            ELSE IF charCode = 10
            THEN readWhitespace(str,
                    [c EXCEPT
                        !.position = @ + 1,
                        !.lineNumber = @ + 1,
                        !.columnNumber = 0,
                        !.tokenStart.position = @ + 1,
                        !.tokenStart.line = @ + 1,
                        !.tokenStart.column = 0])
            ELSE c

\* Tokeniser.addToken: the token pushed and the cursor with the next start.
addToken(c, partialToken) ==
    [token |-> toToken(partialToken,
                  SourceLocation(c.tokenStart,
                      SourcePosition(c.lineNumber, c.columnNumber, c.position - 1))),
     cursor |-> [c EXCEPT !.tokenStart =
                    SourcePosition(c.lineNumber, c.columnNumber, c.position)]]

cursor == Cursor(position, lineNumber, columnNumber, tokenStart)

\* The message of an Error or SyntaxError: fixed text, then source characters.
Message(text, chars) == [text |-> text, chars |-> chars]
NoError == [name |-> "none", message |-> Message("", <<>>)]
Raised(name, text, chars) == [name |-> name, message |-> Message(text, chars)]


(***************************************************************************)
(* AST nodes (ast/types.ts).  A node is a record with a type; the optional *)
(* property extra is a record that says whether it is defined and which of *)
(* its keys are set.  The values undefined and null are records too.       *)
(***************************************************************************)
Undefined == [type |-> "undefined"]
Null == [type |-> "null"]

\* `x || null` for a node, null or undefined.
OrNull(x) == IF x.type \in {"undefined", "null"} THEN Null ELSE x

\* A node without the property extra.
NoExtra ==
    [defined |-> FALSE, hasLocation |-> FALSE, location |-> Undefined,
     trailingComma |-> FALSE]

program(body) == [type |-> "Program", body |-> body, extra |-> NoExtra]

identifier(name) == [type |-> "Identifier", name |-> name, extra |-> NoExtra]

numericLiteral(value) ==
    [type |-> "NumericLiteral", value |-> value, extra |-> NoExtra]

booleanLiteral(value) ==
    [type |-> "BooleanLiteral", value |-> value, extra |-> NoExtra]

stringLiteral(value) ==
    [type |-> "StringLiteral", value |-> value, extra |-> NoExtra]

nullLiteral == [type |-> "NullLiteral", extra |-> NoExtra]

templateLiteral(value) ==
    [type |-> "TemplateLiteral", value |-> value, extra |-> NoExtra]

thisExpression == [type |-> "ThisExpression", extra |-> NoExtra]

superExpression == [type |-> "SuperExpression", extra |-> NoExtra]

yieldExpression(argument, delegate) ==
    [type |-> "YieldExpression", argument |-> OrNull(argument),
     delegate |-> delegate, extra |-> NoExtra]

awaitExpression(argument) ==
    [type |-> "AwaitExpression", argument |-> argument, extra |-> NoExtra]

assignmentExpression(operator, left, right) ==
    [type |-> "AssignmentExpression", operator |-> operator, left |-> left,
     right |-> right, extra |-> NoExtra]

unaryExpression(operator, argument) ==
    [type |-> "UnaryExpression", operator |-> operator, argument |-> argument,
     extra |-> NoExtra]

updateExpression(operator, argument, prefix) ==
    [type |-> "UpdateExpression", operator |-> operator, argument |-> argument,
     prefix |-> prefix, extra |-> NoExtra]

binaryExpression(operator, left, right) ==
    [type |-> "BinaryExpression", operator |-> operator, left |-> left,
     right |-> right, extra |-> NoExtra]

logicalExpression(operator, left, right) ==
    [type |-> "LogicalExpression", operator |-> operator, left |-> left,
     right |-> right, extra |-> NoExtra]

sequenceExpression(expressions) ==
    [type |-> "SequenceExpression", expressions |-> expressions,
     extra |-> NoExtra]

memberExpression(object, property, computed) ==
    [type |-> "MemberExpression", object |-> object, property |-> property,
     computed |-> computed, extra |-> NoExtra]

callExpression(callee, args) ==
    [type |-> "CallExpression", callee |-> callee, arguments |-> args,
     extra |-> NoExtra]

newExpression(callee, args) ==
    [type |-> "NewExpression", callee |-> callee, arguments |-> args,
     extra |-> NoExtra]

conditionalExpression(test, consequent, alternate) ==
    [type |-> "ConditionalExpression", test |-> test,
     consequent |-> consequent, alternate |-> alternate, extra |-> NoExtra]

functionExpression(id, params, body, generator, async) ==
    [type |-> "FunctionExpression", id |-> OrNull(id), params |-> params,
     body |-> body, generator |-> generator, async |-> async,
     extra |-> NoExtra]

arrowFunctionExpression(params, body, async) ==
    [type |-> "ArrowFunctionExpression", id |-> Null, params |-> params,
     body |-> body, generator |-> FALSE, async |-> async, extra |-> NoExtra]

arrayExpression(elements) ==
    [type |-> "ArrayExpression", elements |-> elements, extra |-> NoExtra]

objectProperty(key, value, computed, shorthand) ==
    [type |-> "ObjectProperty", key |-> key, value |-> value,
     computed |-> computed, shorthand |-> shorthand, extra |-> NoExtra]

objectMethod(kind, key, params, body, generator, async, computed) ==
    [type |-> "ObjectMethod", kind |-> kind, key |-> key, id |-> Null,
     params |-> params, body |-> body, generator |-> generator,
     async |-> async, computed |-> computed, extra |-> NoExtra]

objectExpression(properties) ==
    [type |-> "ObjectExpression", properties |-> properties, extra |-> NoExtra]

doExpression(body, async) ==
    [type |-> "DoExpression", body |-> body, async |-> async, extra |-> NoExtra]

PATTERN_TYPES ==
    {"Identifier", "ObjectPattern", "ArrayPattern", "RestElement",
     "AssignmentPattern"}

\* A test that takes no node for a pattern.
isPattern_None(node) == FALSE

isPattern(node) == node.type \in PATTERN_TYPES

objectPattern(properties) ==
    [type |-> "ObjectPattern", properties |-> properties, extra |-> NoExtra]

arrayPattern(elements) ==
    [type |-> "ArrayPattern", elements |-> elements, extra |-> NoExtra]

restElement(argument) ==
    [type |-> "RestElement", argument |-> argument, extra |-> NoExtra]

assignmentPattern(left, right) ==
    [type |-> "AssignmentPattern", left |-> left, right |-> right,
     extra |-> NoExtra]

spreadElement(argument) ==
    [type |-> "SpreadElement", argument |-> argument, extra |-> NoExtra]

blockStatement(body) ==
    [type |-> "BlockStatement", body |-> body, extra |-> NoExtra]

emptyStatement == [type |-> "EmptyStatement", extra |-> NoExtra]

expressionStatement(expression) ==
    [type |-> "ExpressionStatement", expression |-> expression,
     extra |-> NoExtra]

variableDeclarator(id, init) ==
    [type |-> "VariableDeclarator", id |-> id, init |-> init, extra |-> NoExtra]

variableDeclaration(kind, declarators) ==
    [type |-> "VariableDeclaration", kind |-> kind,
     declarators |-> declarators, extra |-> NoExtra]

ifStatement(test, consequent, alternate) ==
    [type |-> "IfStatement", test |-> test, consequent |-> consequent,
     alternate |-> OrNull(alternate), extra |-> NoExtra]

switchStatement(discriminant, cases) ==
    [type |-> "SwitchStatement", discriminant |-> discriminant,
     cases |-> cases, extra |-> NoExtra]

switchCase(test, consequent) ==
    [type |-> "SwitchCase", test |-> OrNull(test), consequent |-> consequent,
     extra |-> NoExtra]

forStatement(init, test, update, body) ==
    [type |-> "ForStatement", init |-> OrNull(init), test |-> OrNull(test),
     update |-> OrNull(update), body |-> body, extra |-> NoExtra]

whileStatement(test, body) ==
    [type |-> "WhileStatement", test |-> test, body |-> body, extra |-> NoExtra]

doWhileStatement(body, test) ==
    [type |-> "DoWhileStatement", body |-> body, test |-> test,
     extra |-> NoExtra]

catchClause(param, body) ==
    [type |-> "CatchClause", param |-> param, body |-> body, extra |-> NoExtra]

tryStatement(block, handler, finalizer) ==
    [type |-> "TryStatement", block |-> block, handler |-> OrNull(handler),
     finalizer |-> OrNull(finalizer), extra |-> NoExtra]

withStatement(object, body) ==
    [type |-> "WithStatement", object |-> object, body |-> body,
     extra |-> NoExtra]

debuggerStatement == [type |-> "DebuggerStatement", extra |-> NoExtra]

labeledStatement(label, body) ==
    [type |-> "LabeledStatement", label |-> label, body |-> body,
     extra |-> NoExtra]

returnStatement(argument) ==
    [type |-> "ReturnStatement", argument |-> OrNull(argument),
     extra |-> NoExtra]

breakStatement == [type |-> "BreakStatement", extra |-> NoExtra]

continueStatement == [type |-> "ContinueStatement", extra |-> NoExtra]

functionDeclaration(id, params, body, generator, async) ==
    [type |-> "FunctionDeclaration", id |-> id, params |-> params,
     body |-> body, generator |-> generator, async |-> async,
     extra |-> NoExtra]

(***************************************************************************)
(* The parser (Parser).  The object is a record; every method takes it and *)
(* returns it changed, with what the method returned in value and what it  *)
(* threw in err.  A method applied after a throw does nothing.             *)
(***************************************************************************)
ParserOptions(omit) == [emitLogs |-> FALSE, omitLocations |-> omit]

\* new Parser(input, tokens, options)
Parser(inputStr, tokenList, options) ==
    [input |-> inputStr, tokens |-> tokenList, options |-> options,
     position |-> 0, nodeStartPositions |-> <<>>, warnings |-> <<>>,
     err |-> NoError, value |-> Undefined]

\* `const x = value; rest`: rest with x bound to value.  The value is
\* computed before rest is entered, as the order of statements has it.
Bind(value, Rest(_)) ==
    LET x == value
    IN IF x = x THEN Rest(x) ELSE Rest(x)

Failed(p) == p.err.name # "none"
Throw(p, name, message) == [p EXCEPT !.err = [name |-> name, message |-> message]]
Return(p, v) == [p EXCEPT !.value = v]

\* ParseExpressionParams
Params(grouped, sequence, assignment, call) ==
    [canBeGrouped |-> grouped, canBeSequence |-> sequence,
     canBeAssignment |-> assignment, canBeCall |-> call]

DefaultParams == Params(TRUE, TRUE, TRUE, TRUE)

\* Parser.advance
parserAdvance(p) ==
    IF Failed(p) THEN p
    ELSE Return([p EXCEPT !.position = @ + 1], p.position)

\* Parser.peekToken: an index below zero reads undefined off the array.
peekToken(p, offset) ==
    IF Failed(p) THEN p
    ELSE IF p.position + offset >= Len(p.tokens)
    THEN Throw(p, "SyntaxError", Message("Unexpected EOF", <<>>))
    ELSE IF p.position < Len(p.tokens)
    THEN IF p.position + offset >= 0
         THEN Return(p, p.tokens[p.position + offset + 1])
         ELSE Return(p, Undefined)
    ELSE Return(p, p.tokens[Len(p.tokens)])

\* Parser.unexpectedTokenErrorMessage; expectedType is a set of types, empty
\* where the call passes none.
unexpectedTokenErrorMessage(token, expectedType) ==
    IF expectedType = {}
    THEN Message("Unexpected token ", token.value)
    ELSE [text |-> "Unexpected token ", chars |-> token.value,
          expected |-> expectedType]

\* Parser.unexpectedNodeErrorMessage
unexpectedNodeErrorMessage(node, message) == message

\* Extra data that is never stored.
addExtra_Nothing(node, key, value) == node

\* Parser.addExtra
addExtra(node, key, value) ==
    [node EXCEPT !.extra =
        IF key = "location"
        THEN [@ EXCEPT !.defined = TRUE, !.hasLocation = TRUE, !.location = value]
        ELSE [@ EXCEPT !.defined = TRUE, !.trailingComma = value]]

\* Parser.startNode; existingNode is Undefined where the call passes none.
startNode(p, existingNode) ==
    IF Failed(p) THEN p
    ELSE IF p.options.omitLocations THEN p
    ELSE IF existingNode.type # "undefined"
    THEN IF existingNode.extra.defined /\ existingNode.extra.hasLocation
         THEN [p EXCEPT !.nodeStartPositions =
                            Append(@, existingNode.extra.location.start)]
         ELSE Throw(p, "Error",
                    Message("Expected existing node to have location", <<>>))
    ELSE Bind(peekToken(p, 0), LAMBDA t :
         IF Failed(t) THEN t
            ELSE [p EXCEPT !.nodeStartPositions =
                               Append(@, t.value.location.start)])

\* Parser.finishNode: reading location off an undefined last token is a
\* TypeError.
finishNode(p, node) ==
    IF Failed(p) THEN p
    ELSE IF p.options.omitLocations THEN Return(p, node)
    ELSE Bind(peekToken(p, -1), LAMBDA t :
         IF Failed(t) THEN t
            ELSE IF Len(p.nodeStartPositions) > 0
            THEN IF t.value.type = "undefined"
                 THEN Throw(p, "TypeError",
                        Message("Cannot read properties of undefined", <<>>))
                 ELSE Bind(p.nodeStartPositions[Len(p.nodeStartPositions)], LAMBDA start :
                      Bind(SubSeq(p.nodeStartPositions, 1,
                                         Len(p.nodeStartPositions) - 1), LAMBDA rest :
                      Return([p EXCEPT !.nodeStartPositions = rest],
                                addExtra(node, "location",
                                    SourceLocation(start, t.value.location.end)))))
            ELSE Return(p, node))

\* Parser.getNextToken; requiredType is a set of types, empty where the call
\* passes none.
getNextToken(p, requiredType) ==
    IF Failed(p) THEN p
    ELSE Bind(p.position < Len(p.tokens), LAMBDA inside :
         Bind(IF inside THEN p.tokens[p.position + 1]
                      ELSE p.tokens[Len(p.tokens)], LAMBDA token :
         Bind(IF inside THEN parserAdvance(p) ELSE p, LAMBDA q :
         IF requiredType # {} /\ token.type \notin requiredType
            THEN Throw(q, "SyntaxError",
                       unexpectedTokenErrorMessage(token, requiredType))
            ELSE Return(q, token))))

\* Parser.match
match(p, type, offset) ==
    Bind(peekToken(p, offset), LAMBDA t :
    IF Failed(t) THEN t ELSE Return(p, t.value.type = type))

\* `this.match(type) ? whenTrue : whenFalse`
IfMatch(p, type, whenTrue, whenFalse) ==
    Bind(match(p, type, 0), LAMBDA m :
    IF Failed(m) THEN m ELSE IF m.value THEN whenTrue ELSE whenFalse)

\* A parser that sees no line break anywhere.
isLineBreak_Never(p) == IF Failed(p) THEN p ELSE Return(p, FALSE)

\* Parser.isLineBreak
isLineBreak(p) ==
    IF Failed(p) THEN p
    ELSE IF Len(p.tokens) = 0 THEN Return(p, FALSE)
    ELSE Bind(peekToken(p, -1), LAMBDA last :
         Bind(peekToken(p, 0), LAMBDA current :
         IF Failed(last) THEN last
            ELSE IF Failed(current) THEN current
            ELSE IF last.value.type = "undefined"
            THEN Throw(p, "TypeError",
                       Message("Cannot read properties of undefined", <<>>))
            ELSE Return(p,
                    \E k \in (last.value.location.end.position + 1)
                             ..(current.value.location.start.position - 1) :
                        charAt(p.input, k) \in {"\n", "\r"})))

\* Parser.expectBreak
expectBreak(p) ==
    IfMatch(p, ";",
        parserAdvance(p),
        IfMatch(p, "}", p,
            IfMatch(p, "eof", p,
                Bind(isLineBreak(p), LAMBDA b :
                IF Failed(b) THEN b
                   ELSE IF b.value THEN p
                   ELSE Throw(p, "SyntaxError",
                          unexpectedTokenErrorMessage(peekToken(p, 0).value, {}))))))

\* Parser.isBreak
isBreak(p) ==
    IfMatch(p, ";", Return(p, TRUE),
        IfMatch(p, "}", Return(p, TRUE),
            IfMatch(p, "eof", Return(p, TRUE), isLineBreak(p))))

\* Parser.expectSemiColon
expectSemiColon(p) ==
    IfMatch(p, ";",
        parserAdvance(p),
        Throw(p, "SyntaxError",
              unexpectedTokenErrorMessage(peekToken(p, 0).value, {";"})))

\* parseInt of a run of decimal digits.
RECURSIVE parseInt(_)
parseInt(chars) ==
    IF chars = <<>> THEN 0
    ELSE 10 * parseInt(SubSeq(chars, 1, Len(chars) - 1))
         + (CharCode(chars[Len(chars)]) - 48)

\* A call of a method of the parser that is reached again from its own body:
\* Invoke(method, p, args) is this.method(...args) on the parser p.
RECURSIVE Invoke(_, _, _)

\* Parser.parseIdentifier
parseIdentifier(p) ==
    Bind(startNode(p, Undefined), LAMBDA p1 :
    Bind(getNextToken(p1, {"identifier"}), LAMBDA p2 :
    finishNode(p2, identifier(p2.value.value))))

\* Parser.parseKeywordAsIdentifier
parseKeywordAsIdentifier(p) ==
    Bind(startNode(p, Undefined), LAMBDA p1 :
    Bind(getNextToken(p1, {}), LAMBDA p2 :
    IF Failed(p2) THEN p2
       ELSE IF p2.value.type \notin KeywordTypes
       THEN Throw(p2, "SyntaxError",
                  [text |-> "Token ", type |-> p2.value.type,
                   tail |-> " is not a keyword"])
       ELSE finishNode(p2, identifier(Chars(p2.value.type)))))

\* Parser.parseNumericLiteral
parseNumericLiteral(p) ==
    Bind(startNode(p, Undefined), LAMBDA p1 :
    Bind(getNextToken(p1, {"number"}), LAMBDA p2 :
    finishNode(p2, numericLiteral(parseInt(p2.value.value)))))

\* Parser.parseBooleanLiteral
parseBooleanLiteral(p) ==
    Bind(startNode(p, Undefined), LAMBDA p1 :
    Bind(getNextToken(p1, booleanValueTokens), LAMBDA p2 :
    finishNode(p2, booleanLiteral(p2.value.type = "true"))))

\* Parser.parseStringLiteral
parseStringLiteral(p) ==
    Bind(startNode(p, Undefined), LAMBDA p1 :
    Bind(getNextToken(p1, {"string"}), LAMBDA p2 :
    finishNode(p2, stringLiteral(p2.value.value))))

\* Parser.parseTemplateLiteral
parseTemplateLiteral(p) ==
    Bind(startNode(p, Undefined), LAMBDA p1 :
    Bind(getNextToken(p1, {"templateString"}), LAMBDA p2 :
    finishNode(p2, templateLiteral(p2.value.value))))

\* Parser.parseNullLiteral
parseNullLiteral(p) ==
    finishNode(getNextToken(startNode(p, Undefined), {"null"}), nullLiteral)

\* Parser.parseThisExpression
parseThisExpression(p) ==
    finishNode(getNextToken(startNode(p, Undefined), {"this"}), thisExpression)

\* Parser.parseSuperExpression
parseSuperExpression(p) ==
    finishNode(getNextToken(startNode(p, Undefined), {"super"}), superExpression)

\* Parser.parseEmptyStatement
parseEmptyStatement(p) ==
    finishNode(expectSemiColon(startNode(p, Undefined)), emptyStatement)

\* Parser.parseDebuggerStatement
parseDebuggerStatement(p) ==
    finishNode(expectBreak(getNextToken(startNode(p, Undefined), {"debugger"})),
               debuggerStatement)

\* Parser.parseBreakStatement
parseBreakStatement(p) ==
    finishNode(expectBreak(getNextToken(startNode(p, Undefined), {"break"})),
               breakStatement)

\* Parser.parseContinueStatement
parseContinueStatement(p) ==
    finishNode(expectBreak(getNextToken(startNode(p, Undefined), {"continue"})),
               continueStatement)

\* Parser.parseExpressionStatement
parseExpressionStatement(p) ==
    Bind(startNode(p, Undefined), LAMBDA p1 :
    Bind(Invoke("parseExpression", p1, <<DefaultParams>>), LAMBDA p2 :
    Bind(expectBreak(p2), LAMBDA p3 :
    finishNode(p3, expressionStatement(p2.value)))))

\* Parser.parseLabeledStatement
parseLabeledStatement(p) ==
    Bind(startNode(p, Undefined), LAMBDA p1 :
    Bind(parseIdentifier(p1), LAMBDA p2 :
    Bind(getNextToken(p2, {":"}), LAMBDA p3 :
    Bind(Invoke("parseStatement", p3, <<>>), LAMBDA p4 :
    finishNode(p4, labeledStatement(p2.value, p4.value))))))

\* Parser.parseReturnStatement
parseReturnStatement(p) ==
    Bind(startNode(p, Undefined), LAMBDA p1 :
    Bind(getNextToken(p1, {"return"}), LAMBDA p2 :
    Bind(isBreak(p2), LAMBDA b :
    IF Failed(b) THEN b
       ELSE Bind(IF b.value THEN Return(p2, Null)
                      ELSE Invoke("parseExpression", p2, <<DefaultParams>>), LAMBDA p3 :
            Bind(expectBreak(p3), LAMBDA p4 :
            finishNode(p4, returnStatement(p3.value)))))))

\* The loop of parseVariableDeclarator calls in parseVariableDeclaration.
RECURSIVE parseVariableDeclaration_while(_, _)

\* Parser.parseVariableDeclarator
parseVariableDeclarator(p) ==
    Bind(startNode(p, Undefined), LAMBDA p1 :
    Bind(Invoke("parsePattern", p1, <<FALSE>>), LAMBDA p2 :
    Bind(getNextToken(p2, {"="}), LAMBDA p3 :
    Bind(Invoke("parseExpression", p3, <<Params(TRUE, FALSE, TRUE, TRUE)>>), LAMBDA p4 :
    finishNode(p4, variableDeclarator(p2.value, p4.value))))))

parseVariableDeclaration_while(p, declarators) ==
    Bind(parseVariableDeclarator(p), LAMBDA d :
    IF Failed(d) THEN d
       ELSE IfMatch(d, ",",
                parseVariableDeclaration_while(parserAdvance(d),
                                               Append(declarators, d.value)),
                Return(d, Append(declarators, d.value))))

\* Parser.parseVariableDeclaration
parseVariableDeclaration(p) ==
    Bind(startNode(p, Undefined), LAMBDA p1 :
    Bind(getNextToken(p1, variableDeclarationKindTokens), LAMBDA p2 :
    Bind(parseVariableDeclaration_while(p2, <<>>), LAMBDA p3 :
    Bind(expectBreak(p3), LAMBDA p4 :
    finishNode(p4, variableDeclaration(p2.value.value, p3.value))))))

\* The loop of parseFunctionParams.
RECURSIVE parseFunctionParams_while(_, _)
parseFunctionParams_while(p, params) ==
    IfMatch(p, ")",
        Return(p, params),
        Bind(Invoke("parsePattern", p, <<TRUE>>), LAMBDA q :
        Bind(q.value, LAMBDA pattern :
        IF Failed(q) THEN q
           ELSE IfMatch(q, ",",
                    Bind(parserAdvance(q), LAMBDA q1 :
                    IfMatch(q1, ")",
                           IF pattern.type = "RestElement"
                           THEN Throw(q1, "SyntaxError",
                                  unexpectedNodeErrorMessage(pattern,
                                    Message("A rest element must be last in a parameter list", <<>>)))
                           ELSE Return(q1, Append(params,
                                    addExtra(pattern, "trailingComma", TRUE))),
                           IF pattern.type = "RestElement"
                           THEN Throw(q1, "SyntaxError",
                                  unexpectedNodeErrorMessage(pattern,
                                    Message("A rest element in a parameter list cannot have a trailing comma", <<>>)))
                           ELSE parseFunctionParams_while(q1, Append(params, pattern)))),
                    Return(q, Append(params, pattern))))))

\* Parser.parseFunctionParams
parseFunctionParams(p) ==
    Bind(getNextToken(p, {"("}), LAMBDA p1 :
    Bind(parseFunctionParams_while(p1, <<>>), LAMBDA p2 :
    Bind(getNextToken(p2, {")"}), LAMBDA p3 :
    IF Failed(p3) THEN p3 ELSE Return(p3, p2.value))))

\* Parser.parseFunction
parseFunction(p, isDeclaration) ==
    Bind(startNode(p, Undefined), LAMBDA p1 :
    Bind(match(p1, "async", 0), LAMBDA a :
    IF Failed(a) THEN a
       ELSE Bind(a.value, LAMBDA async :
            Bind(IF async THEN parserAdvance(p1) ELSE p1, LAMBDA p2 :
            Bind(getNextToken(p2, {"function"}), LAMBDA p3 :
            Bind(match(p3, "*", 0), LAMBDA g :
            IF Failed(g) THEN g
               ELSE Bind(g.value, LAMBDA generator :
                    Bind(IF generator THEN parserAdvance(p3) ELSE p3, LAMBDA p4 :
                    Bind(IfMatch(p4, "(", Return(p4, Null), parseIdentifier(p4)), LAMBDA p5 :
                    IF Failed(p5) THEN p5
                       ELSE IF isDeclaration /\ p5.value.type = "null"
                       THEN Throw(p5, "SyntaxError",
                              Message("Function statements require a function name", <<>>))
                       ELSE Bind(Invoke("parseFunctionParams", p5, <<>>), LAMBDA p6 :
                            Bind(Invoke("parseBlockStatement", p6, <<>>), LAMBDA p7 :
                            finishNode(p7,
                                 IF isDeclaration
                                 THEN functionDeclaration(p5.value, p6.value,
                                          p7.value, generator, async)
                                 ELSE functionExpression(p5.value, p6.value,
                                          p7.value, generator, async)))))))))))))

\* The loop of parseBlockStatement.
RECURSIVE parseBlockStatement_while(_, _)
parseBlockStatement_while(p, statements) ==
    IfMatch(p, "}",
        Return(p, statements),
        Bind(Invoke("parseStatement", p, <<>>), LAMBDA s :
        IF Failed(s) THEN s
           ELSE parseBlockStatement_while(s, Append(statements, s.value))))

\* Parser.parseBlockStatement
parseBlockStatement(p) ==
    Bind(startNode(p, Undefined), LAMBDA p1 :
    Bind(getNextToken(p1, {"{"}), LAMBDA p2 :
    Bind(parseBlockStatement_while(p2, <<>>), LAMBDA p3 :
    Bind(getNextToken(p3, {"}"}), LAMBDA p4 :
    finishNode(p4, blockStatement(p3.value))))))

\* Parser.parseIfStatement
parseIfStatement(p) ==
    Bind(startNode(p, Undefined), LAMBDA p1 :
    Bind(getNextToken(p1, {"if"}), LAMBDA p2 :
    Bind(getNextToken(p2, {"("}), LAMBDA p3 :
    Bind(Invoke("parseExpression", p3, <<DefaultParams>>), LAMBDA p4 :
    Bind(getNextToken(p4, {")"}), LAMBDA p5 :
    Bind(Invoke("parseStatement", p5, <<>>), LAMBDA p6 :
    Bind(IfMatch(p6, "else",
                  Invoke("parseStatement", getNextToken(p6, {"else"}), <<>>),
                  Return(p6, Undefined)), LAMBDA p7 :
    finishNode(p7, ifStatement(p4.value, p6.value, p7.value)))))))))

\* The loop of parseSwitchCase: it goes on while the next token is `}`.
RECURSIVE parseSwitchCase_while(_, _)
parseSwitchCase_while(p, consequent) ==
    Bind(match(p, "case", 0), LAMBDA c :
    IF Failed(c) THEN c
       ELSE IF ~ c.value /\ ~ match(p, "default", 0).value
               /\ match(p, "}", 0).value
       THEN Bind(Invoke("parseStatement", p, <<>>), LAMBDA s :
            IF Failed(s) THEN s
               ELSE parseSwitchCase_while(s, Append(consequent, s.value)))
       ELSE Return(p, consequent))

\* Parser.parseSwitchCase
parseSwitchCase(p) ==
    Bind(startNode(p, Undefined), LAMBDA p1 :
    Bind(IfMatch(p1, "default",
                  Return(parserAdvance(p1), Null),
                  Invoke("parseExpression", getNextToken(p1, {"case"}), <<DefaultParams>>)), LAMBDA p2 :
    Bind(getNextToken(p2, {":"}), LAMBDA p3 :
    Bind(Invoke("parseStatement", p3, <<>>), LAMBDA p4 :
    Bind(IF Failed(p4) THEN p4
              ELSE parseSwitchCase_while(p4, <<p4.value>>), LAMBDA p5 :
    finishNode(p5, switchCase(p2.value, p5.value)))))))

\* The loop of parseSwitchStatement.
RECURSIVE parseSwitchStatement_while(_, _)
parseSwitchStatement_while(p, cases) ==
    IfMatch(p, "}",
        Return(p, cases),
        Bind(parseSwitchCase(p), LAMBDA c :
        IF Failed(c) THEN c
           ELSE parseSwitchStatement_while(c, Append(cases, c.value))))

\* Parser.parseSwitchStatement
parseSwitchStatement(p) ==
    Bind(startNode(p, Undefined), LAMBDA p1 :
    Bind(getNextToken(p1, {"switch"}), LAMBDA p2 :
    Bind(getNextToken(p2, {"("}), LAMBDA p3 :
    Bind(Invoke("parseExpression", p3, <<DefaultParams>>), LAMBDA p4 :
    Bind(getNextToken(p4, {")"}), LAMBDA p5 :
    Bind(getNextToken(p5, {"{"}), LAMBDA p6 :
    Bind(parseSwitchStatement_while(p6, <<>>), LAMBDA p7 :
    Bind(getNextToken(p7, {"}"}), LAMBDA p8 :
    finishNode(p8, switchStatement(p4.value, p7.value))))))))))

\* Parser.parseForStatement
parseForStatement(p) ==
    Bind(startNode(p, Undefined), LAMBDA p1 :
    Bind(getNextToken(p1, {"for"}), LAMBDA p2 :
    Bind(getNextToken(p2, {"("}), LAMBDA p3 :
    Bind(IfMatch(p3, ";",
                    Return(parserAdvance(p3), Null),
                    IfMatch(p3, "var",
                        Invoke("parseVariableDeclaration", p3, <<>>),
                        Bind(Invoke("parseExpression", p3, <<DefaultParams>>), LAMBDA e :
                        Bind(expectSemiColon(e), LAMBDA s :
                        IF Failed(s) THEN s ELSE Return(s, e.value))))), LAMBDA init :
    Bind(IfMatch(init, ";",
                    Return(init, Null),
                    Invoke("parseExpression", init, <<DefaultParams>>)), LAMBDA test :
    Bind(expectSemiColon(test), LAMBDA p4 :
    Bind(IfMatch(p4, ")",
                      Return(p4, Null),
                      Invoke("parseExpression", p4, <<DefaultParams>>)), LAMBDA update :
    Bind(getNextToken(update, {")"}), LAMBDA p5 :
    Bind(Invoke("parseStatement", p5, <<>>), LAMBDA p6 :
    finishNode(p6, forStatement(init.value, test.value, update.value, p6.value)))))))))))

\* Parser.parseWhileStatement
parseWhileStatement(p) ==
    Bind(startNode(p, Undefined), LAMBDA p1 :
    Bind(getNextToken(p1, {"while"}), LAMBDA p2 :
    Bind(getNextToken(p2, {"("}), LAMBDA p3 :
    Bind(Invoke("parseExpression", p3, <<DefaultParams>>), LAMBDA p4 :
    Bind(getNextToken(p4, {")"}), LAMBDA p5 :
    Bind(Invoke("parseStatement", p5, <<>>), LAMBDA p6 :
    finishNode(p6, whileStatement(p4.value, p6.value))))))))

\* Parser.parseDoWhileStatement
parseDoWhileStatement(p) ==
    Bind(startNode(p, Undefined), LAMBDA p1 :
    Bind(getNextToken(p1, {"do"}), LAMBDA p2 :
    Bind(Invoke("parseStatement", p2, <<>>), LAMBDA p3 :
    Bind(getNextToken(p3, {"while"}), LAMBDA p4 :
    Bind(getNextToken(p4, {"("}), LAMBDA p5 :
    Bind(Invoke("parseExpression", p5, <<DefaultParams>>), LAMBDA p6 :
    Bind(getNextToken(p6, {")"}), LAMBDA p7 :
    finishNode(p7, doWhileStatement(p3.value, p6.value)))))))))

\* Parser.parseCatchClause
parseCatchClause(p) ==
    Bind(startNode(p, Undefined), LAMBDA p1 :
    Bind(getNextToken(p1, {"catch"}), LAMBDA p2 :
    Bind(IfMatch(p2, "(",
                  Bind(parseIdentifier(parserAdvance(p2)), LAMBDA i :
                  Bind(getNextToken(i, {")"}), LAMBDA c :
                  IF Failed(c) THEN c ELSE Return(c, i.value))),
                  Return(p2, Null)), LAMBDA p3 :
    Bind(Invoke("parseBlockStatement", p3, <<>>), LAMBDA p4 :
    finishNode(p4, catchClause(p3.value, p4.value))))))

\* A try statement that asks for no catch and no finally.
parseTryStatement_Unchecked(p) ==
    Bind(startNode(p, Undefined), LAMBDA p1 :
    Bind(getNextToken(p1, {"try"}), LAMBDA p2 :
    Bind(Invoke("parseBlockStatement", p2, <<>>), LAMBDA p3 :
    Bind(IfMatch(p3, "catch", parseCatchClause(p3), Return(p3, Null)), LAMBDA handler :
    Bind(IfMatch(handler, "finally",
                         Invoke("parseBlockStatement", parserAdvance(handler), <<>>),
                         Return(handler, Null)), LAMBDA finalizer :
    finishNode(finalizer,
        tryStatement(p3.value, handler.value, finalizer.value)))))))

\* Parser.parseTryStatement
parseTryStatement(p) ==
    Bind(startNode(p, Undefined), LAMBDA p1 :
    Bind(getNextToken(p1, {"try"}), LAMBDA p2 :
    Bind(Invoke("parseBlockStatement", p2, <<>>), LAMBDA p3 :
    Bind(IfMatch(p3, "catch", parseCatchClause(p3), Return(p3, Null)), LAMBDA handler :
    Bind(IfMatch(handler, "finally",
                         Invoke("parseBlockStatement", parserAdvance(handler), <<>>),
                         Return(handler, Null)), LAMBDA finalizer :
    IF Failed(finalizer) THEN finalizer
       ELSE IF handler.value.type = "null" /\ finalizer.value.type = "null"
       THEN Throw(finalizer, "SyntaxError",
                  Message("Missing catch or finally after try", <<>>))
       ELSE finishNode(finalizer,
                tryStatement(p3.value, handler.value, finalizer.value)))))))

\* Parser.parseWithStatement
parseWithStatement(p) ==
    Bind(startNode(p, Undefined), LAMBDA p1 :
    Bind(getNextToken(p1, {"with"}), LAMBDA p2 :
    Bind(getNextToken(p2, {"("}), LAMBDA p3 :
    Bind(Invoke("parseExpression", p3, <<DefaultParams>>), LAMBDA p4 :
    Bind(getNextToken(p4, {")"}), LAMBDA p5 :
    Bind(Invoke("parseStatement", p5, <<>>), LAMBDA p6 :
    finishNode(p6, withStatement(p4.value, p6.value))))))))

\* Parser.parseStatement
parseStatement(p) ==
    Bind(peekToken(p, 0), LAMBDA t :
    IF Failed(t) THEN t
       ELSE Bind(t.value.type, LAMBDA type :
            IF type \in variableDeclarationKindTokens
               THEN Invoke("parseVariableDeclaration", p, <<>>)
               ELSE CASE type = "{" -> Invoke("parseBlockStatement", p, <<>>)
                      [] type \in {"function", "async"} -> Invoke("parseFunction", p, <<TRUE>>)
                      [] type = "if" -> parseIfStatement(p)
                      [] type = "switch" -> parseSwitchStatement(p)
                      [] type = "for" -> parseForStatement(p)
                      [] type = "while" -> parseWhileStatement(p)
                      [] type = "do" -> parseDoWhileStatement(p)
                      [] type = "try" -> parseTryStatement(p)
                      [] type = "with" -> parseWithStatement(p)
                      [] type = "debugger" -> parseDebuggerStatement(p)
                      [] type = "break" -> parseBreakStatement(p)
                      [] type = "continue" -> parseContinueStatement(p)
                      [] type = "return" -> parseReturnStatement(p)
                      [] type = ";" -> parseEmptyStatement(p)
                      [] type = "identifier" ->
                            Bind(match(p, ":", 1), LAMBDA m :
                            IF Failed(m) THEN m
                               ELSE IF m.value THEN parseLabeledStatement(p)
                               ELSE parseExpressionStatement(p))
                      [] OTHER -> parseExpressionStatement(p)))

\* The loop of parse.
RECURSIVE parse_while(_, _)
parse_while(p, statements) ==
    IF Failed(p) THEN p
    ELSE IF p.position < Len(p.tokens)
    THEN IfMatch(p, "eof",
             Return(p, statements),
             Bind(Invoke("parseStatement", p, <<>>), LAMBDA s :
             IF Failed(s) THEN s
                ELSE parse_while(s, Append(statements, s.value))))
    ELSE Return(p, statements)

\* Parser.parse
parse(p) ==
    Bind(startNode(p, Undefined), LAMBDA p1 :
    Bind(parse_while(p1, <<>>), LAMBDA p2 :
    Bind(finishNode(p2, program(p2.value)), LAMBDA p3 :
    IF Failed(p3) THEN p3
       ELSE IF Len(p3.nodeStartPositions) > 0
       THEN [p3 EXCEPT !.warnings = Append(@,
                "Leftover start positions, node locations may be misaligned")]
       ELSE p3)))

\* Parser.parsePattern
parsePattern(p, canBeAssignment) ==
    Bind(IfMatch(p, "...",
                 Invoke("parseSpreadElement", p, <<>>),
                 Invoke("parseExpression", p, <<Params(TRUE, FALSE, canBeAssignment, TRUE)>>)), LAMBDA e :
    IF Failed(e) THEN e ELSE Invoke("expressionToPattern", e, <<e.value>>))

\* Parser.parseExpression
parseExpression(p, params) ==
    Bind(Invoke("parseExpression2", p, <<params>>), LAMBDA e :
    Bind(peekToken(e, 0), LAMBDA t :
    IF Failed(t) THEN t
       ELSE IF params.canBeSequence /\ t.value.type = ","
       THEN Invoke("parseSequenceExpression", parserAdvance(e), <<e.value>>)
       ELSE e))

\* `expression.expressions.map(this.expressionToPattern.bind(this))`
RECURSIVE expressionsToPatterns(_, _, _, _)
expressionsToPatterns(p, expressions, i, patterns) ==
    IF Failed(p) THEN p
    ELSE IF i > Len(expressions) THEN Return(p, patterns)
    ELSE Bind(Invoke("expressionToPattern", p, <<expressions[i]>>), LAMBDA q :
         IF Failed(q) THEN q
            ELSE expressionsToPatterns(q, expressions, i + 1,
                                       Append(patterns, q.value)))

\* The end of parseExpression2: a grouped expression where one may follow.
parseExpression2_grouped(p, expression, nextType, params) ==
    IF /\ params.canBeGrouped
       /\ nextType \in binaryOperatorTokens \cup logicalOperatorTokens
    THEN Invoke("parseGroupedExpression", p, <<expression, 0>>)
    ELSE Return(p, expression)

\* Parser.parsePostfixUpdateExpression
parsePostfixUpdateExpression(p, argument) ==
    Bind(startNode(p, argument), LAMBDA p1 :
    Bind(getNextToken(p1, updateOperatorTokens), LAMBDA p2 :
    finishNode(p2, updateExpression(p2.value.value, argument, FALSE))))

\* Parser.parseExpression2
parseExpression2(p, params) ==
    Bind(Invoke("parseExpressionInner", p, <<>>), LAMBDA e :
    Bind(peekToken(e, 0), LAMBDA t :
    IF Failed(t) THEN t
       ELSE Bind(e.value, LAMBDA expression :
            Bind(t.value.type, LAMBDA nextType :
            IF params.canBeAssignment /\ nextType \in assignmentOperatorTokens
               THEN Invoke("parseAssignmentExpression", e, <<expression>>)
               ELSE IF nextType \in updateOperatorTokens
               THEN Bind(parsePostfixUpdateExpression(e, expression), LAMBDA u :
                    Bind(peekToken(u, 0), LAMBDA t2 :
                    IF Failed(t2) THEN t2
                       ELSE parseExpression2_grouped(u, u.value, t2.value.type,
                                                     params)))
               ELSE IF nextType = "["
               THEN Invoke("parseMemberExpression", e, <<expression, TRUE>>)
               ELSE IF nextType = "."
               THEN Invoke("parseMemberExpression", e, <<expression, FALSE>>)
               ELSE IF params.canBeCall /\ nextType = "("
               THEN Invoke("parseCallExpression", e, <<expression>>)
               ELSE IF nextType = "?"
               THEN Invoke("parseConditionalExpression", e, <<expression>>)
               ELSE IF nextType = "=>"
               THEN Bind(IF expression.type = "SequenceExpression"
                              THEN expressionsToPatterns(e, expression.expressions,
                                                         1, <<>>)
                              ELSE Bind(Invoke("expressionToPattern", e, <<expression>>), LAMBDA q :
                                   IF Failed(q) THEN q
                                      ELSE Return(q, <<q.value>>)), LAMBDA ps :
                    IF Failed(ps) THEN ps
                       ELSE Invoke("parseArrowFunctionExpression", ps, <<ps.value, FALSE>>))
               ELSE parseExpression2_grouped(e, expression, nextType, params)))))

\* Parser.parseUnaryExpression
parseUnaryExpression(p) ==
    Bind(startNode(p, Undefined), LAMBDA p1 :
    Bind(getNextToken(p1, unaryOperatorTokens), LAMBDA p2 :
    Bind(Invoke("parseExpression", p2, <<Params(FALSE, FALSE, FALSE, TRUE)>>), LAMBDA p3 :
    finishNode(p3, unaryExpression(p2.value.value, p3.value)))))

\* Parser.parsePrefixUpdateExpression
parsePrefixUpdateExpression(p) ==
    Bind(startNode(p, Undefined), LAMBDA p1 :
    Bind(getNextToken(p1, updateOperatorTokens), LAMBDA p2 :
    Bind(Invoke("parseExpression", p2, <<Params(FALSE, FALSE, FALSE, TRUE)>>), LAMBDA p3 :
    finishNode(p3, updateExpression(p2.value.value, p3.value, TRUE)))))

\* The loop of arguments of parseCallExpression; parseNewExpression repeats it.
RECURSIVE parseCallExpression_while(_, _)
parseCallExpression_while(p, args) ==
    IfMatch(p, ")",
        Return(p, args),
        Bind(IfMatch(p, "...",
                     Invoke("parseSpreadElement", p, <<>>),
                     Invoke("parseExpression", p, <<Params(TRUE, FALSE, TRUE, TRUE)>>)), LAMBDA a :
        Bind(a.value, LAMBDA arg :
        IF Failed(a) THEN a
           ELSE IfMatch(a, ",",
                    Bind(parserAdvance(a), LAMBDA a1 :
                    IfMatch(a1, ")",
                           Return(a1, Append(args,
                                      addExtra(arg, "trailingComma", TRUE))),
                           parseCallExpression_while(a1, Append(args, arg)))),
                    Return(a, Append(args, arg))))))

\* Parser.parseNewExpression
parseNewExpression(p) ==
    Bind(startNode(p, Undefined), LAMBDA p1 :
    Bind(getNextToken(p1, {"new"}), LAMBDA p2 :
    Bind(Invoke("parseExpression", p2, <<Params(TRUE, TRUE, TRUE, FALSE)>>), LAMBDA p3 :
    Bind(IfMatch(p3, "(",
                  Bind(parseCallExpression_while(getNextToken(p3, {"("}), <<>>), LAMBDA a :
                  Bind(getNextToken(a, {")"}), LAMBDA c :
                  IF Failed(c) THEN c ELSE Return(c, a.value))),
                  Return(p3, <<>>)), LAMBDA p4 :
    finishNode(p4, newExpression(p3.value, p4.value))))))

\* Parser.parseParenthesisedExpression
parseParenthesisedExpression(p) ==
    Bind(startNode(p, Undefined), LAMBDA p1 :
    Bind(getNextToken(p1, {"("}), LAMBDA p2 :
    Bind(IfMatch(p2, "...",
                  Invoke("parseSpreadElement", p2, <<>>),
                  Invoke("parseExpression", p2, <<DefaultParams>>)), LAMBDA p3 :
    Bind(getNextToken(p3, {")"}), LAMBDA p4 :
    finishNode(p4, p3.value)))))

\* The loop of parseArrayExpression.
RECURSIVE parseArrayExpression_while(_, _)
parseArrayExpression_while(p, elements) ==
    IfMatch(p, "]",
        Return(p, elements),
        IfMatch(p, ",",
            parseArrayExpression_while(parserAdvance(p), Append(elements, Null)),
            Bind(IfMatch(p, "...",
                         Invoke("parseSpreadElement", p, <<>>),
                         Invoke("parseExpression", p, <<Params(TRUE, FALSE, TRUE, TRUE)>>)), LAMBDA e :
            Bind(e.value, LAMBDA element :
            IF Failed(e) THEN e
               ELSE IfMatch(e, ",",
                        Bind(parserAdvance(e), LAMBDA e1 :
                        IfMatch(e1, "]",
                               Return(e1, Append(elements,
                                          addExtra(element, "trailingComma", TRUE))),
                               parseArrayExpression_while(e1,
                                          Append(elements, element)))),
                        Return(e, Append(elements, element)))))))

\* Parser.parseArrayExpression
parseArrayExpression(p) ==
    Bind(startNode(p, Undefined), LAMBDA p1 :
    Bind(getNextToken(p1, {"["}), LAMBDA p2 :
    Bind(parseArrayExpression_while(p2, <<>>), LAMBDA p3 :
    Bind(getNextToken(p3, {"]"}), LAMBDA p4 :
    finishNode(p4, arrayExpression(p3.value))))))

\* The loop of parseObjectExpression.
RECURSIVE parseObjectExpression_while(_, _)
parseObjectExpression_while(p, properties) ==
    IfMatch(p, "}",
        Return(p, properties),
        Bind(Invoke("parseObjectMember", p, <<>>), LAMBDA m :
        Bind(m.value, LAMBDA member :
        IF Failed(m) THEN m
           ELSE IfMatch(m, ",",
                    Bind(parserAdvance(m), LAMBDA m1 :
                    IfMatch(m1, "}",
                           Return(m1, Append(properties,
                                      addExtra(member, "trailingComma", TRUE))),
                           parseObjectExpression_while(m1,
                                      Append(properties, member)))),
                    Return(m, Append(properties, member))))))

\* Parser.parseObjectExpression
parseObjectExpression(p) ==
    Bind(startNode(p, Undefined), LAMBDA p1 :
    Bind(getNextToken(p1, {"{"}), LAMBDA p2 :
    Bind(parseObjectExpression_while(p2, <<>>), LAMBDA p3 :
    Bind(getNextToken(p3, {"}"}), LAMBDA p4 :
    finishNode(p4, objectExpression(p3.value))))))

\* Parser.parseYieldExpression
parseYieldExpression(p) ==
    Bind(startNode(p, Undefined), LAMBDA p1 :
    Bind(getNextToken(p1, {"yield"}), LAMBDA p2 :
    Bind(match(p2, "*", 0), LAMBDA d :
    IF Failed(d) THEN d
       ELSE Bind(d.value, LAMBDA delegate :
            Bind(IF delegate THEN parserAdvance(p2) ELSE p2, LAMBDA p3 :
            Bind(isBreak(p3), LAMBDA b :
            IF Failed(b) THEN b
               ELSE Bind(IF b.value THEN Return(p3, Null)
                              ELSE Invoke("parseExpression", p3, <<DefaultParams>>), LAMBDA p4 :
                    finishNode(p4, yieldExpression(p4.value, delegate)))))))))

\* Parser.parseAwaitExpression
parseAwaitExpression(p) ==
    Bind(startNode(p, Undefined), LAMBDA p1 :
    Bind(getNextToken(p1, {"await"}), LAMBDA p2 :
    Bind(Invoke("parseExpression", p2, <<DefaultParams>>), LAMBDA p3 :
    finishNode(p3, awaitExpression(p3.value)))))

\* Parser.parseDoExpression
parseDoExpression(p, isAsync) ==
    Bind(startNode(p, Undefined), LAMBDA p1 :
    Bind(IF isAsync THEN getNextToken(p1, {"async"}) ELSE p1, LAMBDA p2 :
    Bind(getNextToken(p2, {"do"}), LAMBDA p3 :
    Bind(Invoke("parseBlockStatement", p3, <<>>), LAMBDA p4 :
    finishNode(p4, doExpression(p4.value, isAsync))))))

\* Parser.parseExpressionInner
parseExpressionInner(p) ==
    Bind(peekToken(p, 0), LAMBDA t :
    IF Failed(t) THEN t
       ELSE Bind(t.value.type, LAMBDA type :
            IF type \in unaryOperatorTokens THEN parseUnaryExpression(p)
               ELSE IF type \in updateOperatorTokens
               THEN parsePrefixUpdateExpression(p)
               ELSE CASE type = "identifier" -> parseIdentifier(p)
                      [] type = "number" -> parseNumericLiteral(p)
                      [] type \in {"true", "false"} -> parseBooleanLiteral(p)
                      [] type = "string" -> parseStringLiteral(p)
                      [] type = "templateString" -> parseTemplateLiteral(p)
                      [] type = "null" -> parseNullLiteral(p)
                      [] type = "this" -> parseThisExpression(p)
                      [] type = "super" -> parseSuperExpression(p)
                      [] type = "new" -> parseNewExpression(p)
                      [] type = "(" ->
                            Bind(match(p, ")", 1), LAMBDA m :
                            IF Failed(m) THEN m
                               ELSE IF m.value
                               THEN Invoke("parseArrowFunctionExpression", getNextToken(getNextToken(p, {"("}), {")"}), <<<<>>, FALSE>>)
                               ELSE parseParenthesisedExpression(p))
                      [] type = "function" -> Invoke("parseFunction", p, <<FALSE>>)
                      [] type = "[" -> parseArrayExpression(p)
                      [] type = "{" -> parseObjectExpression(p)
                      [] type = "yield" -> parseYieldExpression(p)
                      [] type = "await" -> parseAwaitExpression(p)
                      [] type = "async" ->
                            Bind(peekToken(p, 1), LAMBDA n :
                            IF Failed(n) THEN n
                               ELSE IF n.value.type = "("
                               THEN Bind(Invoke("parseFunctionParams", getNextToken(p, {"async"}), <<>>), LAMBDA ps :
                                    Invoke("parseArrowFunctionExpression", ps, <<ps.value, FALSE>>))
                               ELSE IF n.value.type = "do"
                               THEN parseDoExpression(p, TRUE)
                               ELSE Invoke("parseFunction", p, <<FALSE>>))
                      [] type = "do" -> parseDoExpression(p, FALSE)
                      [] OTHER -> Throw(p, "SyntaxError",
                                    unexpectedTokenErrorMessage(t.value, {}))))

\* Parser.parseAssignmentExpression
parseAssignmentExpression(p, left) ==
    Bind(startNode(p, left), LAMBDA p1 :
    Bind(Invoke("expressionToPattern", p1, <<left>>), LAMBDA p2 :
    Bind(getNextToken(p2, assignmentOperatorTokens), LAMBDA p3 :
    Bind(Invoke("parseExpression", p3, <<Params(TRUE, FALSE, TRUE, TRUE)>>), LAMBDA p4 :
    finishNode(p4, assignmentExpression(p3.value.value, p2.value, p4.value))))))

\* An inner loop that never climbs: the right operand is left as parsed.
parseGroupedExpression_inner_NoClimb(p, right, operatorPrecedence) ==
    Return(p, right)

\* The inner loop of parseGroupedExpression: operators that bind tighter
\* than the current one, or as tight and right-associative, take right.
RECURSIVE parseGroupedExpression_inner(_, _, _)
parseGroupedExpression_inner(p, right, operatorPrecedence) ==
    Bind(peekToken(p, 0), LAMBDA t :
    IF Failed(t) THEN t
       ELSE Bind(t.value.type, LAMBDA lookahead :
            IF /\ lookahead \in groupedOperatorTokens
                  /\ \/ precedence(lookahead) > operatorPrecedence
                     \/ /\ rightAssociative(lookahead)
                        /\ precedence(lookahead) >= operatorPrecedence
               THEN Bind(operatorPrecedence
                            + (IF precedence(lookahead) > operatorPrecedence
                               THEN 1 ELSE 0), LAMBDA nextMinPrecedence :
                    Bind(Invoke("parseGroupedExpression", p, <<right, nextMinPrecedence>>), LAMBDA r :
                    IF Failed(r) THEN r
                       ELSE parseGroupedExpression_inner(r, r.value,
                                                         operatorPrecedence)))
               ELSE Return(p, right)))

\* The outer loop of parseGroupedExpression.
RECURSIVE parseGroupedExpression_while(_, _, _, _)
parseGroupedExpression_while(p, isFirst, expression, minPrecedence) ==
    Bind(peekToken(p, 0), LAMBDA t :
    IF Failed(t) THEN t
       ELSE Bind(t.value.type, LAMBDA operator :
            IF /\ operator \in groupedOperatorTokens
                  /\ precedence(operator) >= minPrecedence
               THEN Bind(IF ~ isFirst THEN startNode(p, expression) ELSE p, LAMBDA p1 :
                    Bind(precedence(operator), LAMBDA operatorPrecedence :
                    Bind(parserAdvance(p1), LAMBDA p2 :
                    Bind(Invoke("parseExpression", p2, <<Params(FALSE, FALSE, TRUE, TRUE)>>), LAMBDA p3 :
                    Bind(IF Failed(p3) THEN p3
                              ELSE parseGroupedExpression_inner(p3, p3.value,
                                                                operatorPrecedence), LAMBDA p4 :
                    Bind(finishNode(p4,
                                IF operator \in logicalOperatorTokens
                                THEN logicalExpression(Chars(operator), expression,
                                                       p4.value)
                                ELSE binaryExpression(Chars(operator), expression,
                                                      p4.value)), LAMBDA p5 :
                    IF Failed(p5) THEN p5
                       ELSE parseGroupedExpression_while(p5, FALSE, p5.value,
                                                         minPrecedence)))))))
               ELSE Return(p, expression)))

\* Parser.parseGroupedExpression
parseGroupedExpression(p, firstExpression, minPrecedence) ==
    parseGroupedExpression_while(startNode(p, firstExpression), TRUE,
                                 firstExpression, minPrecedence)

\* The loop of parseSequenceExpression.
RECURSIVE parseSequenceExpression_while(_, _)
parseSequenceExpression_while(p, expressions) ==
    Bind(IfMatch(p, "...",
                 Invoke("parseSpreadElement", p, <<>>),
                 Invoke("parseExpression", p, <<Params(TRUE, FALSE, TRUE, TRUE)>>)), LAMBDA e :
    IF Failed(e) THEN e
       ELSE IfMatch(e, ",",
                parseSequenceExpression_while(parserAdvance(e),
                                              Append(expressions, e.value)),
                Return(e, Append(expressions, e.value))))

\* Parser.parseSequenceExpression
parseSequenceExpression(p, firstExpression) ==
    Bind(startNode(p, firstExpression), LAMBDA p1 :
    Bind(parseSequenceExpression_while(p1, <<firstExpression>>), LAMBDA p2 :
    finishNode(p2, sequenceExpression(p2.value))))

\* Parser.parseMemberExpression
parseMemberExpression(p, object, computed) ==
    Bind(startNode(p, Undefined), LAMBDA p1 :
    Bind(getNextToken(p1, IF computed THEN {"["} ELSE {"."}), LAMBDA p2 :
    Bind(Invoke("parseExpression", p2, <<DefaultParams>>), LAMBDA p3 :
    Bind(IF computed THEN getNextToken(p3, {"]"}) ELSE p3, LAMBDA p4 :
    finishNode(p4, memberExpression(object, p3.value, computed))))))

\* Parser.parseCallExpression
parseCallExpression(p, callee) ==
    Bind(startNode(p, Undefined), LAMBDA p1 :
    Bind(getNextToken(p1, {"("}), LAMBDA p2 :
    Bind(parseCallExpression_while(p2, <<>>), LAMBDA p3 :
    Bind(getNextToken(p3, {")"}), LAMBDA p4 :
    finishNode(p4, callExpression(callee, p3.value))))))

\* Parser.parseConditionalExpression
parseConditionalExpression(p, test) ==
    Bind(startNode(p, Undefined), LAMBDA p1 :
    Bind(getNextToken(p1, {"?"}), LAMBDA p2 :
    Bind(Invoke("parseExpression", p2, <<DefaultParams>>), LAMBDA p3 :
    Bind(getNextToken(p3, {":"}), LAMBDA p4 :
    Bind(Invoke("parseExpression", p4, <<DefaultParams>>), LAMBDA p5 :
    finishNode(p5, conditionalExpression(test, p3.value, p5.value)))))))

\* Parser.parseSpreadElement
parseSpreadElement(p) ==
    Bind(startNode(p, Undefined), LAMBDA p1 :
    Bind(getNextToken(p1, {"..."}), LAMBDA p2 :
    Bind(Invoke("parseExpression", p2, <<Params(TRUE, FALSE, TRUE, TRUE)>>), LAMBDA p3 :
    finishNode(p3, spreadElement(p3.value)))))

\* Parser.parseArrowFunctionExpression
parseArrowFunctionExpression(p, params, async) ==
    Bind(startNode(p, Undefined), LAMBDA p1 :
    Bind(getNextToken(p1, {"=>"}), LAMBDA p2 :
    Bind(IfMatch(p2, "{",
                  Invoke("parseBlockStatement", p2, <<>>),
                  Invoke("parseExpression", p2, <<DefaultParams>>)), LAMBDA p3 :
    finishNode(p3, arrowFunctionExpression(params, p3.value, async)))))

\* Parser.assignmentExpressionToPattern
assignmentExpressionToPattern(p, expression) ==
    IF Failed(p) THEN p
    ELSE IF expression.operator # <<"=">>
    THEN Throw(p, "SyntaxError",
            unexpectedNodeErrorMessage(expression,
                [text |-> "Invalid assignment pattern operator ",
                 chars |-> expression.operator, tail |-> ", expected ="]))
    ELSE Bind(IF isPattern(expression.left)
                     THEN Return(p, expression.left)
                     ELSE Invoke("expressionToPattern", p, <<expression.left>>), LAMBDA left :
         IF Failed(left) THEN left
            ELSE Return(left,
                    [assignmentPattern(left.value, expression.right)
                        EXCEPT !.extra = expression.extra]))

\* Parser.arrayElementToPattern
arrayElementToPattern(p, element) ==
    IF element.type = "null" THEN Return(p, element)
    ELSE IF element.type = "SpreadElement"
    THEN Invoke("spreadElementToPattern", p, <<element>>)
    ELSE Invoke("expressionToPattern", p, <<element>>)

\* No check of a converted element or member.
restElementError_None(pattern, isLast) == ""

\* The checks of a converted element or member: a rest element is last and
\* has no trailing comma.
restElementError(pattern, isLast) ==
    IF pattern.type # "RestElement" THEN ""
    ELSE IF ~ isLast
    THEN "A rest element must be last in a destructuring pattern"
    ELSE IF pattern.extra.defined /\ pattern.extra.trailingComma
    THEN "A rest element in a destructuring pattern cannot have a trailing comma"
    ELSE ""

\* The loop of arrayExpressionToPattern.
RECURSIVE arrayExpressionToPattern_for(_, _, _, _)
arrayExpressionToPattern_for(p, source, i, elements) ==
    IF Failed(p) THEN p
    ELSE IF i > Len(source) THEN Return(p, elements)
    ELSE Bind(arrayElementToPattern(p, source[i]), LAMBDA q :
         IF Failed(q) THEN q
            ELSE IF restElementError(q.value, i = Len(source)) # ""
            THEN Throw(q, "SyntaxError",
                    unexpectedNodeErrorMessage(q.value,
                        Message(restElementError(q.value, i = Len(source)), <<>>)))
            ELSE arrayExpressionToPattern_for(q, source, i + 1,
                                              Append(elements, q.value)))

\* Parser.arrayExpressionToPattern
arrayExpressionToPattern(p, expression) ==
    Bind(arrayExpressionToPattern_for(p, expression.elements, 1, <<>>), LAMBDA q :
    IF Failed(q) THEN q
       ELSE Return(q, [arrayPattern(q.value) EXCEPT !.extra = expression.extra]))

\* Parser.objectPropertyToPattern
objectPropertyToPattern(p, property) ==
    Bind(Invoke("expressionToPattern", p, <<property.value>>), LAMBDA q :
    IF Failed(q) THEN q
       ELSE Return(q, [property EXCEPT !.value = q.value]))

\* Parser.objectMemberToPattern
objectMemberToPattern(p, member) ==
    IF member.type = "SpreadElement" THEN Invoke("spreadElementToPattern", p, <<member>>)
    ELSE IF member.type = "ObjectProperty"
    THEN objectPropertyToPattern(p, member)
    ELSE Throw(p, "SyntaxError",
            unexpectedNodeErrorMessage(member,
                [text |-> "Invalid object member pattern type ",
                 type |-> member.type]))

\* The loop of objectExpressionToPattern.
RECURSIVE objectExpressionToPattern_for(_, _, _, _)
objectExpressionToPattern_for(p, source, i, properties) ==
    IF Failed(p) THEN p
    ELSE IF i > Len(source) THEN Return(p, properties)
    ELSE Bind(objectMemberToPattern(p, source[i]), LAMBDA q :
         IF Failed(q) THEN q
            ELSE IF restElementError(q.value, i = Len(source)) # ""
            THEN Throw(q, "SyntaxError",
                    unexpectedNodeErrorMessage(q.value,
                        Message(restElementError(q.value, i = Len(source)), <<>>)))
            ELSE objectExpressionToPattern_for(q, source, i + 1,
                                               Append(properties, q.value)))

\* Parser.objectExpressionToPattern
objectExpressionToPattern(p, expression) ==
    Bind(objectExpressionToPattern_for(p, expression.properties, 1, <<>>), LAMBDA q :
    IF Failed(q) THEN q
       ELSE Return(q, [objectPattern(q.value) EXCEPT !.extra = expression.extra]))

\* A conversion that leaves the extra of the spread element behind.
spreadElementToPattern_DropExtra(p, element) ==
    Bind(Invoke("expressionToPattern", p, <<element.argument>>), LAMBDA q :
    IF Failed(q) THEN q
       ELSE Return(q, restElement(q.value)))

\* Parser.spreadElementToPattern
spreadElementToPattern(p, element) ==
    Bind(Invoke("expressionToPattern", p, <<element.argument>>), LAMBDA q :
    IF Failed(q) THEN q
       ELSE Return(q, [restElement(q.value) EXCEPT !.extra = element.extra]))

\* Parser.expressionToPattern
expressionToPattern(p, expression) ==
    IF Failed(p) THEN p
    ELSE IF isPattern(expression) THEN Return(p, expression)
    ELSE CASE expression.type = "AssignmentExpression" ->
                assignmentExpressionToPattern(p, expression)
           [] expression.type = "ArrayExpression" ->
                arrayExpressionToPattern(p, expression)
           [] expression.type = "ObjectExpression" ->
                objectExpressionToPattern(p, expression)
           [] expression.type = "SpreadElement" ->
                Invoke("spreadElementToPattern", p, <<expression>>)
           [] OTHER ->
                Throw(p, "SyntaxError",
                    unexpectedNodeErrorMessage(expression,
                        [text |-> "Invalid pattern ", type |-> expression.type]))

\* The end of parseObjectMember, once the key is read.
parseObjectMember_value(p, key, computed, method) ==
    Bind(peekToken(p, 0), LAMBDA t :
    IF Failed(t) THEN t
       ELSE IF t.value.type = ":"
       THEN Bind(Invoke("parseExpression", getNextToken(p, {}), <<Params(TRUE, FALSE, TRUE, TRUE)>>), LAMBDA v :
            finishNode(v, objectProperty(key, v.value, computed, FALSE)))
       ELSE IF t.value.type = "="
       THEN Bind(Invoke("parseAssignmentExpression", p, <<key>>), LAMBDA a :
            Bind(IF Failed(a) THEN a
                     ELSE assignmentExpressionToPattern(a, a.value), LAMBDA q :
            finishNode(q, objectProperty(key, q.value, FALSE, FALSE))))
       ELSE IF t.value.type = "("
       THEN Bind(Invoke("parseFunctionParams", p, <<>>), LAMBDA ps :
            Bind(Invoke("parseBlockStatement", ps, <<>>), LAMBDA b :
            finishNode(b,
                 objectMethod(IF method = <<>> THEN <<"m", "e", "t", "h", "o", "d">>
                              ELSE method,
                              key, ps.value, b.value, computed, FALSE, FALSE))))
       ELSE Throw(p, "SyntaxError", unexpectedTokenErrorMessage(t.value, {})))

\* Parser.parseObjectMember; method is empty while undefined.
parseObjectMember(p) ==
    Bind(peekToken(p, 0), LAMBDA t :
    IF Failed(t) THEN t
       ELSE Bind(t.value.type, LAMBDA nextType :
            IF nextType = "["
               THEN Bind(startNode(p, Undefined), LAMBDA p1 :
                    Bind(getNextToken(p1, {"["}), LAMBDA p2 :
                    Bind(Invoke("parseExpression", p2, <<DefaultParams>>), LAMBDA p3 :
                    Bind(getNextToken(p3, {"]"}), LAMBDA p4 :
                    parseObjectMember_value(p4, p3.value, TRUE, <<>>)))))
               ELSE IF nextType = "identifier" \/ nextType \in KeywordTypes
               THEN Bind(startNode(p, Undefined), LAMBDA p1 :
                    Bind(IF nextType = "identifier" THEN parseIdentifier(p1)
                             ELSE parseKeywordAsIdentifier(p1), LAMBDA k :
                    Bind(peekToken(k, 0), LAMBDA t2 :
                    IF Failed(t2) THEN t2
                       ELSE Bind(k.value, LAMBDA key :
                            Bind(t2.value.type, LAMBDA n2 :
                            IF /\ key.name \in {<<"g", "e", "t">>, <<"s", "e", "t">>}
                                  /\ (n2 = "identifier" \/ n2 \in KeywordTypes)
                               THEN Bind(IF n2 = "identifier"
                                              THEN parseIdentifier(k)
                                              ELSE parseKeywordAsIdentifier(k), LAMBDA k2 :
                                    Bind(peekToken(k2, 0), LAMBDA t3 :
                                    IF Failed(t3) THEN t3
                                       ELSE IF t3.value.type # "("
                                       THEN Throw(k2, "SyntaxError",
                                              unexpectedTokenErrorMessage(t3.value,
                                                                          {"("}))
                                       ELSE parseObjectMember_value(k2, k2.value,
                                                FALSE, key.name)))
                               ELSE IF n2 \in {",", "}"}
                               THEN finishNode(k, objectProperty(key, key, FALSE, TRUE))
                               ELSE parseObjectMember_value(k, key, FALSE, <<>>))))))
               ELSE IF nextType = "..." THEN Invoke("parseSpreadElement", p, <<>>)
               ELSE Throw(p, "SyntaxError",
                          unexpectedTokenErrorMessage(t.value, {}))))

\* The outcome of Parser.parse: the node returned or the error thrown.
\* The methods of the parser that Invoke calls.
Invoke(method, p, args) ==
    CASE method = "parseStatement" -> parseStatement(p)
      [] method = "parseBlockStatement" -> parseBlockStatement(p)
      [] method = "parseFunction" -> parseFunction(p, args[1])
      [] method = "parseFunctionParams" -> parseFunctionParams(p)
      [] method = "parsePattern" -> parsePattern(p, args[1])
      [] method = "parseExpression" -> parseExpression(p, args[1])
      [] method = "parseExpression2" -> parseExpression2(p, args[1])
      [] method = "parseExpressionInner" -> parseExpressionInner(p)
      [] method = "parseVariableDeclaration" -> parseVariableDeclaration(p)
      [] method = "parseSpreadElement" -> parseSpreadElement(p)
      [] method = "parseSequenceExpression" -> parseSequenceExpression(p, args[1])
      [] method = "parseAssignmentExpression" -> parseAssignmentExpression(p, args[1])
      [] method = "parseGroupedExpression" -> parseGroupedExpression(p, args[1], args[2])
      [] method = "parseMemberExpression" -> parseMemberExpression(p, args[1], args[2])
      [] method = "parseCallExpression" -> parseCallExpression(p, args[1])
      [] method = "parseConditionalExpression" -> parseConditionalExpression(p, args[1])
      [] method = "parseArrowFunctionExpression" -> parseArrowFunctionExpression(p, args[1], args[2])
      [] method = "parseObjectMember" -> parseObjectMember(p)
      [] method = "expressionToPattern" -> expressionToPattern(p, args[1])
      [] method = "spreadElementToPattern" -> spreadElementToPattern(p, args[1])

NoResult == [status |-> "none", error |-> NoError, node |-> Undefined]
Returned(node) == [status |-> "returned", error |-> NoError, node |-> node]
Thrown(error) == [status |-> "thrown", error |-> error, node |-> Undefined]

(***************************************************************************)
(* Source texts.                                                           *)
(***************************************************************************)
\* All sequences over alphabet of length at most n.
RECURSIVE SeqsUpTo(_, _)
SeqsUpTo(alphabet, n) ==
    IF n = 0 THEN { <<>> }
    ELSE LET shorter == SeqsUpTo(alphabet, n - 1)
         IN shorter \cup { Append(s, a) : s \in shorter, a \in alphabet }

MaxOperatorTail == 3
MaxWordTail == 1
MaxStringTail == 4
MaxGeneralLen == 4
MaxSwitchItems == 4
MaxListItems == 3
MaxTemplateTail == 3
MaxWhitespaceLen == 2

OperatorChars == {"+", "-", "*", "/", "%", "<", ">", "=", "!", "|", "^", "&", "?"}

\* An operator character followed by characters that continue operators.
OperatorSources ==
    UNION { { <<c>> \o tail : tail \in SeqsUpTo({c, "=", ">", "a"}, MaxOperatorTail) }
            : c \in OperatorChars }

KeywordNames ==
    {"async", "await", "break", "case", "catch", "const", "continue", "debugger",
     "default", "delete", "do", "else", "false", "finally", "for", "function",
     "if", "instanceof", "in", "let", "new", "null", "return", "super", "switch",
     "this", "throw", "true", "try", "typeof", "var", "void", "while", "with",
     "yield"}

\* The ends of each range of identifier characters, and one that is none.
WordTailChars == {"a", "z", "A", "Z", "0", "8", "9", "$", "_", "("}

\* A keyword followed by further characters.
KeywordSources ==
    { Chars(k) \o tail : k \in KeywordNames, tail \in SeqsUpTo(WordTailChars, MaxWordTail) }

\* A quote followed by quotes, backslashes, line feeds and letters.
StringSources ==
    { <<q>> \o tail : q \in {"'", "\""},
                      tail \in SeqsUpTo({"'", "\"", "\\", "a", "\n"}, MaxStringTail) }

\* A template literal quote followed by quotes, line feeds, letters and spaces.
TemplateSources ==
    { <<BACKTICK>> \o tail :
        tail \in SeqsUpTo({BACKTICK, "\n", "a", " "}, MaxTemplateTail) }

\* The characters that readWhitespace skips.
WhitespaceChars == {" ", "\t", "\r", "\n"}

\* Source texts of white space only, the empty one among them.
WhitespaceSources == SeqsUpTo(WhitespaceChars, MaxWhitespaceLen)

\* Words, numbers, white space, punctuation and an unsupported character.
GeneralSources == SeqsUpTo({"a", "1", " ", "\n", ";", "#"}, MaxGeneralLen)

\* The texts in parts, one space between two parts.
RECURSIVE Join(_)
Join(parts) ==
    IF parts = <<>> THEN <<>>
    ELSE IF Len(parts) = 1 THEN parts[1]
    ELSE parts[1] \o <<" ">> \o Join(Tail(parts))

OperandTriples ==
    { << <<"a">>, <<"b">>, <<"c">> >>, << <<"1">>, <<"2">>, <<"3">> >> }

\* Three operands with an operator between each two.
ChainSource(operands, op1, op2) ==
    Join(<<operands[1], Chars(op1), operands[2], Chars(op2), operands[3]>>)

\* Chains of two binary or logical operators.
GroupedChainSources ==
    { ChainSource(o, op1, op2) : o \in OperandTriples,
                                 op1 \in groupedOperatorTokens,
                                 op2 \in groupedOperatorTokens }

\* a op b ? c : d
ConditionalSource(op) ==
    Join(<< <<"a">>, Chars(op), <<"b">>, <<"?">>, <<"c">>, <<":">>, <<"d">> >>)

\* A conditional expression after a binary or logical operator.
ConditionalSources == { ConditionalSource(op) : op \in groupedOperatorTokens }

\* Member accesses and calls that are followed by a further postfix form or
\* by a binary operator.
MemberChain == <<"a", ".", "b", ".", "c">>
CallChain == <<"f", "(", "x", ")", "(", "y", ")">>
MemberOperand == <<"a", "[", "i", "]", " ", "+", " ", "1">>
CallOperand == <<"f", "(", "x", ")", " ", "+", " ", "1">>
MemberOfSum == <<"a", ".", "b", " ", "+", " ", "c">>

PostfixChainSources ==
    {MemberChain, CallChain, MemberOperand, CallOperand, MemberOfSum}

\* Chains of two assignment operators.
AssignmentChainSources ==
    { ChainSource(<< <<"a">>, <<"b">>, <<"c">> >>, op1, op2) :
        op1 \in assignmentOperatorTokens, op2 \in assignmentOperatorTokens }

\* What stands between the braces of a switch: labels and statements.
SwitchItems == {"case", "default", "a", "b"}

SwitchItemText(item) ==
    CASE item = "case" -> <<"c", "a", "s", "e", " ", "1", ":">>
      [] item = "default" -> <<"d", "e", "f", "a", "u", "l", "t", ":">>
      [] item = "a" -> <<"a", ";">>
      [] item = "b" -> <<"b", ";">>

SwitchSource(items) ==
    Join(<< <<"s", "w", "i", "t", "c", "h">>, <<"(", "x", ")">>, <<"{">> >>
         \o [i \in 1..Len(items) |-> SwitchItemText(items[i])]
         \o << <<"}">> >>)

SwitchSources == { SwitchSource(items) : items \in SeqsUpTo(SwitchItems, MaxSwitchItems) }

\* What stands in a list between brackets: an identifier, a spread element,
\* nothing (a hole) and a nested array that ends with a spread element.
ListItems == {"a", "rest", "hole", "nested"}

ListItemText(item, bracket) ==
    CASE item = "a" -> <<"a">>
      [] item = "rest" -> <<".", ".", ".", "b">>
      [] item = "hole" -> <<>>
      [] item = "nested" ->
            (IF bracket = "{" THEN <<"k", ":", " ">> ELSE <<>>)
            \o <<"[", "d", ",", " ", ".", ".", ".", "c", "]">>

\* The items with `, ` between each two.
RECURSIVE ListItemsText(_, _)
ListItemsText(items, bracket) ==
    IF items = <<>> THEN <<>>
    ELSE IF Len(items) = 1 THEN ListItemText(items[1], bracket)
    ELSE ListItemText(items[1], bracket) \o <<",", " ">>
         \o ListItemsText(Tail(items), bracket)

ClosingBracket(bracket) ==
    CASE bracket = "[" -> "]" [] bracket = "{" -> "}" [] bracket = "(" -> ")"

\* The list in its brackets, with a comma before the closing one if trailing.
ListText(bracket, items, trailing) ==
    <<bracket>> \o ListItemsText(items, bracket)
    \o (IF trailing THEN <<",">> ELSE <<>>) \o <<ClosingBracket(bracket)>>

\* Where a list stands: as the pattern of a declaration, of an assignment or
\* of a parameter, as a literal, as the arguments of a call or of `new`, or
\* as the parameters of a function or of an arrow function.
ListContexts ==
    {"var", "assign", "param", "literal", "call", "new", "params", "arrow"}

ListBrackets(context) ==
    IF context \in {"call", "new", "params", "arrow"} THEN {"("} ELSE {"[", "{"}

ListSource(context, bracket, items, trailing) ==
    LET list == ListText(bracket, items, trailing)
    IN CASE context = "var" -> <<"v", "a", "r", " ">> \o list \o <<" ", "=", " ", "c">>
         [] context = "assign" -> <<"x", " ", "=", " ">> \o list \o <<" ", "=", " ", "c">>
         [] context = "param" ->
               <<"f", "u", "n", "c", "t", "i", "o", "n", " ", "f", "(">> \o list
               \o <<")", " ", "{", "}">>
         [] context = "literal" -> <<"x", " ", "=", " ">> \o list
         [] context = "call" -> <<"f">> \o list
         [] context = "new" -> <<"n", "e", "w", " ", "f">> \o list
         [] context = "arrow" -> list \o <<" ", "=", ">", " ", "e">>
         [] context = "params" ->
               <<"f", "u", "n", "c", "t", "i", "o", "n", " ", "f">> \o list
               \o <<" ", "{", "}">>

ListSources ==
    UNION { { ListSource(context, bracket, items, trailing) :
                bracket \in ListBrackets(context),
                items \in SeqsUpTo(ListItems, MaxListItems),
                trailing \in BOOLEAN }
            : context \in ListContexts }

\* A statement that ends with expectBreak, what follows it in the source
\* text, and the token after that: the end of the input, a word, or the
\* closing brace of the block the statement stands in.
BreakStatements ==
    { <<"1">>, <<"a">>, <<"v", "a", "r", " ", "a", " ", "=", " ", "1">>,
      <<"r", "e", "t", "u", "r", "n", " ", "a">>, <<"b", "r", "e", "a", "k">>,
      <<"c", "o", "n", "t", "i", "n", "u", "e">>,
      <<"d", "e", "b", "u", "g", "g", "e", "r">> }

BreakSeparators ==
    { <<>>, <<" ">>, <<"\n">>, <<"\r">>, <<";">>, <<" ", ";">>, <<"\n", ";">>,
      <<" ", "\r", " ">> }

BreakFollowers == { <<>>, <<"a", "b", "c">>, <<"}">> }

BreakSource(statement, separator, follower) ==
    IF follower = <<"}">>
    THEN <<"{", " ">> \o statement \o separator \o follower
    ELSE statement \o separator \o follower

BreakSources ==
    { BreakSource(statement, separator, follower) :
        statement \in BreakStatements, separator \in BreakSeparators,
        follower \in BreakFollowers }

\* The clauses of a for statement: a declaration of each kind, an expression
\* or nothing to start with, an expression or nothing as test and as update.
ForInits ==
    { <<>>, <<"a", " ", "=", " ", "1">>,
      <<"v", "a", "r", " ", "a", " ", "=", " ", "1">>,
      <<"l", "e", "t", " ", "a", " ", "=", " ", "1">>,
      <<"c", "o", "n", "s", "t", " ", "a", " ", "=", " ", "1">> }

ForClauses == { <<>>, <<"b">> }

ForSource(init, test, update) ==
    <<"f", "o", "r", "(">> \o init \o <<";">> \o test \o <<";">> \o update
    \o <<")", " ", "{", "}">>

ForSources ==
    { ForSource(init, test, update) :
        init \in ForInits, test \in ForClauses, update \in ForClauses }

\* A try statement: what stands in its block, its catch clause and its
\* finally clause, each of which may be absent.
TryBodies ==
    { <<>>, <<"t", "r", "y", " ", "{", "}">>,
      <<"t", "r", "y", " ", "{", "}", " ", "f", "i", "n", "a", "l", "l", "y", " ", "{", "}">> }

TryCatches ==
    { <<>>, <<" ", "c", "a", "t", "c", "h", " ", "{", "}">>,
      <<" ", "c", "a", "t", "c", "h", " ", "(", "e", ")", " ", "{", "}">> }

TryFinallies == { <<>>, <<" ", "f", "i", "n", "a", "l", "l", "y", " ", "{", "}">> }

TrySource(body, catch, finally) ==
    <<"t", "r", "y", " ", "{">> \o body \o <<"}">> \o catch \o finally

TrySources ==
    { TrySource(body, catch, finally) :
        body \in TryBodies, catch \in TryCatches, finally \in TryFinallies }

\* Expressions whose node has a first child that is parsed before the node
\* is started: member, call, conditional and arrow function expressions.
PostfixSources ==
    { <<"a", ".", "b">>, <<"a", "[", "b", "]">>, <<"f", "(", "a", ")">>,
      <<"a", " ", "?", " ", "b", " ", ":", " ", "c">>,
      <<"a", " ", "=", ">", " ", "b">>,
      <<"(", "a", ")", " ", "=", ">", " ", "b">>,
      <<"x", " ", "=", " ", "a", ".", "b", ".", "c">> }

\* The members of an object literal: a shorthand property, an assignment
\* property, a property, methods, getters and setters with a plain key, a
\* key in brackets and the key `get`, and two members that are refused.
ObjectMembers ==
    { <<"a">>,
      <<"a", " ", "=", " ", "1">>,
      <<"a", ":", " ", "b">>,
      <<"a", "(", ")", " ", "{", "}">>,
      <<"g", "e", "t", " ", "a", "(", ")", " ", "{", "}">>,
      <<"s", "e", "t", " ", "a", "(", "b", ")", " ", "{", "}">>,
      <<"[", "a", "]", "(", ")", " ", "{", "}">>,
      <<"[", "a", "]", ":", " ", "b">>,
      <<"g", "e", "t", "(", ")", " ", "{", "}">>,
      <<"g", "e", "t", ":", " ", "b">>,
      <<"g", "e", "t", " ", "[", "a", "]", "(", ")", " ", "{", "}">>,
      <<"g", "e", "t", " ", "a", ":", " ", "b">>,
      <<"g", "e", "t", " ", "i", "f", "(", ")", " ", "{", "}">> }

ObjectSource(member) == <<"x", " ", "=", " ", "{">> \o member \o <<"}">>

ObjectSources == { ObjectSource(member) : member \in ObjectMembers }

Sources ==
    PostfixChainSources \cup ConditionalSources \cup WhitespaceSources \cup TemplateSources \cup ObjectSources \cup PostfixSources \cup TrySources \cup ForSources \cup BreakSources \cup OperatorSources \cup KeywordSources \cup StringSources \cup GeneralSources
    \cup GroupedChainSources \cup AssignmentChainSources \cup SwitchSources
    \cup ListSources

(***************************************************************************)
(* The state machine.                                                      *)
(***************************************************************************)
\* No tokeniser has been constructed yet.
Init ==
    /\ input = <<>>
    /\ omitLocations = FALSE
    /\ position = 0
    /\ lineNumber = 0
    /\ columnNumber = 0
    /\ tokenStart = SourcePosition(0, 0, 0)
    /\ tokens = <<>>
    /\ pc = "new"
    /\ thrown = NoError
    /\ result = NoResult

\* new Tokeniser(input): the constructor, for any source text of the model.
NewTokeniser ==
    /\ pc = "new"
    /\ input' \in Sources
    /\ position' = 0
    /\ lineNumber' = 0
    /\ columnNumber' = 0
    /\ tokenStart' = SourcePosition(0, 0, 0)
    /\ tokens' = <<>>
    /\ pc' = "tokenise"
    /\ UNCHANGED <<omitLocations, thrown, result>>

SetCursor(c) ==
    /\ position' = c.position
    /\ lineNumber' = c.lineNumber
    /\ columnNumber' = c.columnNumber
    /\ tokenStart' = c.tokenStart

\* One iteration of the loop of tokenise in which a matcher succeeds.
TokeniseMatch ==
    /\ pc = "tokenise"
    /\ position < Len(input)
    /\ LET c1 == readWhitespace(input, cursor)
           inputStr == substring(input, c1.position)
           matchResult == matchInput(inputStr)
       IN /\ matchResult.matched
          /\ LET added == addToken(advance(c1, matchResult.length), matchResult.token)
             IN /\ tokens' = Append(tokens, added.token)
                /\ SetCursor(readWhitespace(input, added.cursor))
    /\ UNCHANGED <<input, omitLocations, pc, thrown, result>>

\* One iteration of the loop of tokenise in which no matcher succeeds.
TokeniseThrow ==
    /\ pc = "tokenise"
    /\ position < Len(input)
    /\ LET c1 == readWhitespace(input, cursor)
           inputStr == substring(input, c1.position)
           matchResult == matchInput(inputStr)
       IN /\ ~ matchResult.matched
          /\ SetCursor(c1)
          /\ thrown' = Raised("Error", "Unable to match input ", inputStr)
    /\ pc' = "thrown"
    /\ UNCHANGED <<input, omitLocations, tokens, result>>

\* The end of tokenise: the eof token is added and the list returned.
TokeniseReturn ==
    /\ pc = "tokenise"
    /\ position >= Len(input)
    /\ LET added == addToken(cursor, PartialToken("eof", <<"E", "O", "F">>))
       IN /\ tokens' = Append(tokens, added.token)
          /\ SetCursor(added.cursor)
    /\ pc' = "parse"
    /\ UNCHANGED <<input, omitLocations, thrown, result>>

\* new Parser(input, tokens, options).parse(), for either value of the
\* option omitLocations.
Parse ==
    /\ pc = "parse"
    /\ \E omit \in BOOLEAN :
          LET p == parse(Parser(input, tokens, ParserOptions(omit)))
          IN /\ omitLocations' = omit
             /\ result' = IF Failed(p) THEN Thrown(p.err) ELSE Returned(p.value)
    /\ pc' = "done"
    /\ UNCHANGED <<input, position, lineNumber, columnNumber, tokenStart,
                   tokens, thrown>>

Next ==
    \/ NewTokeniser
    \/ TokeniseMatch
    \/ TokeniseThrow
    \/ TokeniseReturn
    \/ Parse

Spec == Init /\ [][Next]_vars

(***************************************************************************)
(* Properties of the tokeniser.                                            *)
(***************************************************************************)
\* The source characters a token covers, read off its type and value.
Covered(t) ==
    IF t.type = "eof" THEN 0
    ELSE IF t.type \in {"string", "templateString"} THEN Len(t.value) + 2
    ELSE Len(t.value)

\* The text of every token kind that starts with an operator character.
OperatorLexemes ==
    { <<"?">>, <<"+", "+">>, <<"-", "-">>, <<"=", ">">>,
      <<"=">>, <<"+", "=">>, <<"-", "=">>, <<"*", "=">>, <<"/", "=">>, <<"%", "=">>,
      <<"*", "*", "=">>, <<"<", "<", "=">>, <<">", ">", "=">>, <<">", ">", ">", "=">>,
      <<"|", "=">>, <<"^", "=">>, <<"&", "=">>, <<"|", "|", "=">>, <<"&", "&", "=">>,
      <<"?", "?", "=">>, <<"|", "|">>, <<"?", "?">>, <<"&", "&">>, <<"|">>, <<"^">>,
      <<"&">>, <<"=", "=">>, <<"!", "=">>, <<"=", "=", "=">>, <<"!", "=", "=">>,
      <<"<">>, <<"<", "=">>, <<">">>, <<">", "=">>, <<"<", "<">>, <<">", ">">>,
      <<">", ">", ">">>, <<"+">>, <<"-">>, <<"*">>, <<"/">>, <<"%">>, <<"*", "*">>,
      <<"!">> }

\* The remaining input at the start of token t.
RestAt(t) == substring(input, t.location.start.position)

\* C5: every token that starts at an operator character is the longest text
\* of a token kind that is a prefix of the input there (maximal munch).
C5_MaximalMunch ==
    \A i \in 1..Len(tokens) :
        LET t == tokens[i]
        IN (t.type # "eof" /\ charAt(RestAt(t), 0) \in OperatorChars)
           => /\ t.value \in OperatorLexemes
              /\ startsWith(RestAt(t), t.value)
              /\ \A l \in OperatorLexemes :
                    startsWith(RestAt(t), l) => Len(l) <= Len(t.value)

\* A word: an identifier start followed by identifier characters only.
IsWord(str) ==
    /\ str # <<>>
    /\ str[1] \in IdentifierStartClass
    /\ \A i \in 2..Len(str) : str[i] \in IdentifierPartClass

IsKeywordText(str) == \E k \in KeywordNames : Chars(k) = str

\* C6: a word that is no keyword, such as a keyword followed by an identifier
\* character, is lexed as one identifier token holding the whole word, and
\* parses to the Identifier node of that name.
C6_KeywordBoundary ==
    (IsWord(input) /\ ~ IsKeywordText(input)) =>
        /\ pc # "thrown"
        /\ \A i \in 1..Len(tokens) :
              \/ tokens[i].type = "eof"
              \/ tokens[i].type = "identifier" /\ tokens[i].value = input
        /\ pc = "done" =>
              /\ result.status = "returned"
              /\ Len(result.node.body) = 1
              /\ result.node.body[1].type = "ExpressionStatement"
              /\ result.node.body[1].expression.type = "Identifier"
              /\ result.node.body[1].expression.name = input

\* C7: the end offset of every token is exclusive: the start offset plus the
\* number of source characters the token covers.
C7_EndOffsetExclusive ==
    \A i \in 1..Len(tokens) :
        tokens[i].location.end.position
            = tokens[i].location.start.position + Covered(tokens[i])

\* C8: every token has start offset <= end offset, and the span of the eof
\* token is empty, both ends at the final cursor.
C8_SpanOrdered ==
    /\ \A i \in 1..Len(tokens) :
          tokens[i].location.start.position <= tokens[i].location.end.position
    /\ pc \in {"parse", "done"} =>
          /\ tokens[Len(tokens)].location.start.position = position
          /\ tokens[Len(tokens)].location.end.position = position

\* C9: tokenise terminates: every iteration that does not leave the loop moves
\* the cursor forward, never past the end of the input; and a returned list is
\* non-empty and holds eof last and only last.
C9_TokeniseTerminates ==
    /\ [][(pc = "tokenise" /\ pc' = "tokenise")
            => (position' > position /\ position' <= Len(input))]_vars
    /\ [](pc \in {"parse", "done"} =>
            /\ tokens # <<>>
            /\ tokens[Len(tokens)].type = "eof"
            /\ \A i \in 1..(Len(tokens) - 1) : tokens[i].type # "eof")

\* C9 witness: tokenise has returned a list of several tokens.
C9_Witness == pc = "parse" /\ Len(tokens) >= 3

\* The number of backslashes that immediately precede index i (zero-based).
RECURSIVE BackslashRun(_, _)
BackslashRun(str, i) ==
    IF i >= 1 /\ charAt(str, i - 1) = "\\" THEN 1 + BackslashRun(str, i - 1) ELSE 0

\* A character is escaped when an odd run of backslashes precedes it: the
\* last of them is not itself escaped.
IsEscaped(str, i) == BackslashRun(str, i) % 2 = 1

\* The zero-based indices at which a string opened at index 0 may close.
ClosingQuotes(str) ==
    { i \in 1..(Len(str) - 1) : str[i + 1] = str[1] /\ ~ IsEscaped(str, i) }

Min(S) == CHOOSE x \in S : \A y \in S : x <= y

\* A string opened at index 0 of str closes on its line.
Closes(str) ==
    /\ ClosingQuotes(str) # {}
    /\ \A j \in 1..(Min(ClosingQuotes(str)) - 1) : str[j + 1] # "\n"


\* C10: where the input starts with a quote that closes on its line, the
\* token is a string whose value is the text between the quotes and which
\* covers that text and the two quotes; where it does not close, tokenise
\* raises with the input from the opening quote on.
C10_QuotedString ==
    /\ \A i \in 1..Len(tokens) :
          LET t == tokens[i]
              rest == RestAt(t)
          IN (t.type # "eof" /\ charAt(rest, 0) \in {"'", "\""})
             => /\ Closes(rest)
                /\ t.type = "string"
                /\ t.value = SubSeq(rest, 2, Min(ClosingQuotes(rest)))
                /\ LET next == IF i < Len(tokens)
                               THEN tokens[i + 1].location.start.position
                               ELSE position
                       after == t.location.start.position + Len(t.value) + 2
                   IN /\ after <= next
                      /\ \A k \in after..(next - 1) :
                            charAt(input, k) \in WhitespaceChars
    /\ (pc = "thrown" /\ charAt(thrown.message.chars, 0) \in {"'", "\""})
          => /\ ~ Closes(thrown.message.chars)
             /\ thrown.name = "Error"
             /\ thrown.message.text = "Unable to match input "
             /\ thrown.message.chars = substring(input, position)

(***************************************************************************)
(* Properties of the parser.                                               *)
(***************************************************************************)
\* C1: the empty source lexes to the eof token alone and, with locations not
\* omitted, parses to a Program with an empty body; nothing is raised.
C1_EmptySource ==
    (input = <<>> /\ pc # "new") =>
        /\ pc # "thrown"
        /\ pc \in {"parse", "done"} => (Len(tokens) = 1 /\ tokens[1].type = "eof")
        /\ (pc = "done" /\ ~ omitLocations) =>
              /\ result.status = "returned"
              /\ result.node.type = "Program"
              /\ result.node.body = <<>>

\* parse returned a program of one expression statement.
ParsesToExpression ==
    /\ result.status = "returned"
    /\ result.node.type = "Program"
    /\ Len(result.node.body) = 1
    /\ result.node.body[1].type = "ExpressionStatement"

IsPrimaryToken(t) == t.type \in {"identifier", "number"}

\* The tokens are three primaries with an operator of ops between each two.
IsChain(ops) ==
    /\ Len(tokens) = 6
    /\ \A i \in {1, 3, 5} : IsPrimaryToken(tokens[i])
    /\ tokens[2].type \in ops
    /\ tokens[4].type \in ops
    /\ tokens[6].type = "eof"

\* node is the primary expression of token t.
PrimaryOf(node, t) ==
    \/ t.type = "identifier" /\ node.type = "Identifier" /\ node.name = t.value
    \/ /\ t.type = "number"
       /\ node.type = "NumericLiteral"
       /\ node.value = parseInt(t.value)

\* node is the node of a binary or logical operator: logical for the three
\* logical operators and binary for every other.
GroupedNode(node, operator) ==
    /\ node.type = IF operator \in {"||", "&&", "??"}
                   THEN "LogicalExpression" ELSE "BinaryExpression"
    /\ node.operator = Chars(operator)

\* op1(p1, op2(p2, p3))
RightNested(e) ==
    /\ GroupedNode(e, tokens[2].type)
    /\ PrimaryOf(e.left, tokens[1])
    /\ GroupedNode(e.right, tokens[4].type)
    /\ PrimaryOf(e.right.left, tokens[3])
    /\ PrimaryOf(e.right.right, tokens[5])

\* op2(op1(p1, p2), p3)
LeftNested(e) ==
    /\ GroupedNode(e, tokens[4].type)
    /\ GroupedNode(e.left, tokens[2].type)
    /\ PrimaryOf(e.left.left, tokens[1])
    /\ PrimaryOf(e.left.right, tokens[3])
    /\ PrimaryOf(e.right, tokens[5])

\* C2: in p1 op1 p2 op2 p3 with binary or logical operators of different
\* precedence the operator of higher precedence binds first: op1(p1, op2(p2,
\* p3)) where op2 is higher, op2(op1(p1, p2), p3) where op1 is higher; the
\* nodes are logical for ||, && and ?? and binary for every other operator.
C2_Precedence ==
    ( /\ pc = "done"
      /\ IsChain(groupedOperatorTokens)
      /\ precedence(tokens[2].type) # precedence(tokens[4].type) )
    => /\ ParsesToExpression
       /\ IF precedence(tokens[4].type) > precedence(tokens[2].type)
          THEN RightNested(result.node.body[1].expression)
          ELSE LeftNested(result.node.body[1].expression)

\* C2 witness: `a + b * c` has been parsed, with locations, and the node of
\* `*` is the right child of the node of `+`.
C2_Witness ==
    /\ pc = "done"
    /\ ~ omitLocations
    /\ IsChain(groupedOperatorTokens)
    /\ tokens[2].type = "+"
    /\ tokens[4].type = "*"
    /\ ParsesToExpression
    /\ RightNested(result.node.body[1].expression)

\* The tokens are a chain of two assignments: a op1 b op2 c.
IsAssignmentChain ==
    /\ Len(tokens) = 6
    /\ tokens[1].type = "identifier"
    /\ tokens[3].type = "identifier"
    /\ IsPrimaryToken(tokens[5])
    /\ tokens[2].type \in assignmentOperatorTokens
    /\ tokens[4].type \in assignmentOperatorTokens
    /\ tokens[6].type = "eof"

AssignmentNode(node, t) ==
    node.type = "AssignmentExpression" /\ node.operator = t.value

\* C3: two `**` nest to the right, two assignments nest to the right, and
\* two binary or logical operators of equal precedence other than `**` nest
\* to the left.
C3_Associativity ==
    pc = "done" =>
        /\ ( /\ IsChain(groupedOperatorTokens)
             /\ precedence(tokens[2].type) = precedence(tokens[4].type) )
           => /\ ParsesToExpression
              /\ IF tokens[2].type = "**"
                 THEN RightNested(result.node.body[1].expression)
                 ELSE LeftNested(result.node.body[1].expression)
        /\ IsAssignmentChain
           => /\ ParsesToExpression
              /\ LET e == result.node.body[1].expression
                 IN /\ AssignmentNode(e, tokens[2])
                    /\ PrimaryOf(e.left, tokens[1])
                    /\ AssignmentNode(e.right, tokens[4])
                    /\ PrimaryOf(e.right.left, tokens[3])
                    /\ PrimaryOf(e.right.right, tokens[5])

\* C3 witness: `a ** b ** c` has been parsed and nests to the right.
C3_Witness ==
    /\ pc = "done"
    /\ IsChain({"**"})
    /\ ParsesToExpression
    /\ RightNested(result.node.body[1].expression)

SwitchLabels == {"case", "default"}

\* Every label of the switch is followed by a statement.
WellFormedSwitch(items) ==
    items # <<>> =>
        /\ items[1] \in SwitchLabels
        /\ items[Len(items)] \notin SwitchLabels
        /\ \A i \in 1..(Len(items) - 1) :
              items[i] \in SwitchLabels => items[i + 1] \notin SwitchLabels

\* The cases of a well-formed switch: each label with the statements up to
\* the next label or the end.
RECURSIVE SwitchCases(_)
SwitchCases(items) ==
    IF items = <<>> THEN <<>>
    ELSE LET n == PrefixRun(Tail(items), SwitchItems \ SwitchLabels)
         IN << [label |-> items[1], statements |-> SubSeq(items, 2, n + 1)] >>
            \o SwitchCases(SubSeq(items, n + 2, Len(items)))

\* C4: a switch whose labels are each followed by one or several statements
\* parses to a SwitchStatement with one SwitchCase per label, in order, whose
\* consequent holds the statements up to the next label or the closing brace.
C4_SwitchConsequents ==
    (pc = "done" /\ tokens[1].type = "switch") =>
        \A items \in SeqsUpTo(SwitchItems, MaxSwitchItems) :
            (WellFormedSwitch(items) /\ input = SwitchSource(items)) =>
                /\ result.status = "returned"
                /\ Len(result.node.body) = 1
                /\ result.node.body[1].type = "SwitchStatement"
                /\ LET cases == result.node.body[1].cases
                       expected == SwitchCases(items)
                   IN /\ Len(cases) = Len(expected)
                      /\ \A i \in 1..Len(expected) :
                            /\ cases[i].type = "SwitchCase"
                            /\ (expected[i].label = "default")
                                  <=> (cases[i].test.type = "null")
                            /\ Len(cases[i].consequent) = Len(expected[i].statements)
                            /\ \A j \in 1..Len(expected[i].statements) :
                                  LET s == cases[i].consequent[j]
                                  IN /\ s.type = "ExpressionStatement"
                                     /\ s.expression.type = "Identifier"
                                     /\ s.expression.name
                                            = <<expected[i].statements[j]>>

(***************************************************************************)
(* Lexing failure.                                                         *)
(***************************************************************************)
\* The index (from one) of the first occurrence of char in str, 0 for none.
FirstIndexOf(str, char) ==
    IF \E i \in 1..Len(str) : str[i] = char
    THEN Min({ i \in 1..Len(str) : str[i] = char })
    ELSE 0

\* C11: when no matcher accepts the input left after the white space,
\* tokenise raises the error `Unable to match input ` followed by all of the
\* input left from that position, and returns no token list; an unsupported
\* character after identifier characters is where the message starts.
C11_LexingFailure ==
    /\ [][ ( /\ pc = "tokenise"
             /\ position < Len(input)
             /\ ~ matchInput(substring(input, readWhitespace(input, cursor).position)).matched )
           => ( /\ pc' = "thrown"
                /\ thrown' = Raised("Error", "Unable to match input ",
                                    substring(input, position'))
                /\ result' = NoResult ) ]_vars
    /\ [][pc # "thrown"]_vars
    /\ [](pc = "thrown" =>
            /\ thrown.name = "Error"
            /\ thrown.message.text = "Unable to match input "
            /\ thrown.message.chars = substring(input, position)
            /\ thrown.message.chars # <<>> =>
                  thrown.message.chars[1] \notin WhitespaceChars
            /\ ( /\ FirstIndexOf(input, "#") > 0
                 /\ \A i \in 1..Len(input) : input[i] \in {"a", "1", " ", "\n", ";", "#"} )
               => thrown.message.chars
                     = SubSeq(input, FirstIndexOf(input, "#"), Len(input)))

\* C11 witness: lexing has failed at an unsupported character that follows an
\* identifier.
C11_Witness ==
    /\ pc = "thrown"
    /\ Len(tokens) = 1
    /\ tokens[1].type = "identifier"
    /\ thrown.message.chars[1] = "#"

(***************************************************************************)
(* The nodes of a tree.                                                    *)
(***************************************************************************)
\* The fields of a node of the type that hold one node, or null.
ChildFields(type) ==
    CASE type \in {"YieldExpression", "AwaitExpression", "UnaryExpression",
                   "UpdateExpression", "RestElement", "SpreadElement",
                   "ReturnStatement"} -> <<"argument">>
      [] type \in {"AssignmentExpression", "BinaryExpression", "LogicalExpression",
                   "AssignmentPattern"} -> <<"left", "right">>
      [] type = "MemberExpression" -> <<"object", "property">>
      [] type \in {"CallExpression", "NewExpression"} -> <<"callee">>
      [] type \in {"ConditionalExpression", "IfStatement"} ->
            <<"test", "consequent", "alternate">>
      [] type \in {"FunctionExpression", "FunctionDeclaration",
                   "ArrowFunctionExpression"} -> <<"id", "body">>
      [] type = "ObjectProperty" -> <<"key", "value">>
      [] type = "ObjectMethod" -> <<"key", "body">>
      [] type = "DoExpression" -> <<"body">>
      [] type = "ExpressionStatement" -> <<"expression">>
      [] type = "VariableDeclarator" -> <<"id", "init">>
      [] type = "SwitchStatement" -> <<"discriminant">>
      [] type = "SwitchCase" -> <<"test">>
      [] type = "ForStatement" -> <<"init", "test", "update", "body">>
      [] type \in {"WhileStatement", "DoWhileStatement"} -> <<"test", "body">>
      [] type = "CatchClause" -> <<"param", "body">>
      [] type = "TryStatement" -> <<"block", "handler", "finalizer">>
      [] type = "WithStatement" -> <<"object", "body">>
      [] type = "LabeledStatement" -> <<"label", "body">>
      [] OTHER -> <<>>

\* The fields of a node of the type that hold a list of nodes and nulls.
ChildLists(type) ==
    CASE type \in {"Program", "BlockStatement"} -> <<"body">>
      [] type = "SequenceExpression" -> <<"expressions">>
      [] type \in {"CallExpression", "NewExpression"} -> <<"arguments">>
      [] type \in {"FunctionExpression", "FunctionDeclaration",
                   "ArrowFunctionExpression", "ObjectMethod"} -> <<"params">>
      [] type \in {"ArrayExpression", "ArrayPattern"} -> <<"elements">>
      [] type \in {"ObjectExpression", "ObjectPattern"} -> <<"properties">>
      [] type = "VariableDeclaration" -> <<"declarators">>
      [] type = "SwitchStatement" -> <<"cases">>
      [] type = "SwitchCase" -> <<"consequent">>
      [] OTHER -> <<>>

IsNode(x) == x.type \notin {"null", "undefined"}

\* The lists in one, in order.
RECURSIVE Flatten(_)
Flatten(lists) ==
    IF Len(lists) = 0 THEN <<>> ELSE Head(lists) \o Flatten(Tail(lists))

\* The child nodes of a node, in the order of its fields.
Children(node) ==
    LET fields == ChildFields(node.type)
        lists == ChildLists(node.type)
    IN SelectSeq([i \in 1..Len(fields) |-> node[fields[i]]]
                 \o Flatten([i \in 1..Len(lists) |-> node[lists[i]]]),
                 IsNode)

\* The node and all nodes below it.
RECURSIVE Nodes(_)
Nodes(node) ==
    LET children == Children(node)
    IN <<node>> \o Flatten([i \in 1..Len(children) |-> Nodes(children[i])])

HasTrailingComma(node) == node.extra.defined /\ node.extra.trailingComma

(***************************************************************************)
(* Patterns.                                                               *)
(***************************************************************************)
\* The elements of an array pattern, the properties of an object pattern.
PatternList(node) ==
    IF node.type = "ArrayPattern" THEN node.elements ELSE node.properties

\* C12: in a returned tree every ArrayPattern and ObjectPattern, at any
\* depth, has a RestElement child in the last position only, and that child
\* has no trailingComma flag.
C12_RestElementLast ==
    (pc = "done" /\ result.status = "returned") =>
        LET nodes == Nodes(result.node)
        IN \A n \in 1..Len(nodes) :
              nodes[n].type \in {"ArrayPattern", "ObjectPattern"} =>
                 LET list == PatternList(nodes[n])
                 IN \A i \in 1..Len(list) :
                       list[i].type = "RestElement" =>
                          /\ i = Len(list)
                          /\ ~ HasTrailingComma(list[i])

\* C12 witness: a returned tree holds an array pattern that ends with a rest
\* element and has among its elements an array pattern that does so too.
C12_Witness ==
    /\ pc = "done"
    /\ result.status = "returned"
    /\ LET nodes == Nodes(result.node)
       IN \E n \in 1..Len(nodes) :
             /\ nodes[n].type = "ArrayPattern"
             /\ Len(nodes[n].elements) >= 2
             /\ nodes[n].elements[Len(nodes[n].elements)].type = "RestElement"
             /\ \E i \in 1..Len(nodes[n].elements) :
                   /\ nodes[n].elements[i].type = "ArrayPattern"
                   /\ nodes[n].elements[i].elements[2].type = "RestElement"

\* Where a list is rewritten to a pattern.
PatternContexts == {"var", "assign", "param"}

\* A list source read as the parser reads it: a hole written last, with no
\* comma after it, is no element, and the comma before it is a trailing one;
\* a comma alone between the brackets is the comma of a hole.
EndsWithBareHole(items, trailing) ==
    Len(items) > 0 /\ items[Len(items)] = "hole" /\ ~ trailing

ElementsOf(items, trailing) ==
    IF EndsWithBareHole(items, trailing)
    THEN SubSeq(items, 1, Len(items) - 1)
    ELSE IF items = <<>> /\ trailing THEN <<"hole">>
    ELSE items

TrailingOf(items, trailing) ==
    IF EndsWithBareHole(items, trailing) THEN Len(items) >= 2 ELSE trailing

RestNotLast(elements) ==
    \E i \in 1..(Len(elements) - 1) : elements[i] = "rest"

RestLastWithComma(elements, trailing) ==
    Len(elements) > 0 /\ elements[Len(elements)] = "rest" /\ trailing

ThrownWith(name, text) ==
    /\ result.status = "thrown"
    /\ result.node = Undefined
    /\ result.error.name = name
    /\ result.error.message.text = text
    /\ result.error.message.chars = <<>>

\* C13: rewriting an array or object expression to a pattern, a spread
\* element that is not last raises the SyntaxError `A rest element must be
\* last in a destructuring pattern`; otherwise a last spread element followed
\* by a trailing comma raises the SyntaxError `A rest element in a
\* destructuring pattern cannot have a trailing comma`; no tree is returned.
C13_RestElementErrors ==
    pc = "done" =>
        \A context \in PatternContexts, bracket \in {"[", "{"},
           items \in SeqsUpTo(ListItems, MaxListItems), trailing \in BOOLEAN :
           ( /\ input = ListSource(context, bracket, items, trailing)
             /\ (bracket = "{" => "hole" \notin Range(items)) ) =>
              LET elements == ElementsOf(items, trailing)
                  comma == TrailingOf(items, trailing)
              IN /\ RestNotLast(elements) =>
                      ThrownWith("SyntaxError",
                          "A rest element must be last in a destructuring pattern")
                 /\ (~ RestNotLast(elements) /\ RestLastWithComma(elements, comma)) =>
                      ThrownWith("SyntaxError",
                          "A rest element in a destructuring pattern cannot have a trailing comma")

\* C13 witness: `x = {a, ...b,} = c` is refused for the trailing comma.
C13_Witness ==
    /\ pc = "done"
    /\ input = ListSource("assign", "{", <<"a", "rest">>, TRUE)
    /\ ThrownWith("SyntaxError",
           "A rest element in a destructuring pattern cannot have a trailing comma")

\* C14: in a function parameter list a rest element followed by a comma and
\* a further parameter raises `A rest element must be last in a parameter
\* list`, and a last rest element followed by a trailing comma raises `A rest
\* element in a parameter list cannot have a trailing comma`.
C14_RestParameterErrors ==
    pc = "done" =>
        \A items \in SeqsUpTo(ListItems \ {"hole"}, MaxListItems), trailing \in BOOLEAN :
           input = ListSource("params", "(", items, trailing) =>
              /\ RestNotLast(items) =>
                   ThrownWith("SyntaxError",
                       "A rest element must be last in a parameter list")
              /\ (~ RestNotLast(items) /\ RestLastWithComma(items, trailing)) =>
                   ThrownWith("SyntaxError",
                       "A rest element in a parameter list cannot have a trailing comma")

(***************************************************************************)
(* The end of a statement.                                                 *)
(***************************************************************************)
\* The source text between token k and token k + 1 of the list.
TextBetween(k) ==
    SubSeq(input, tokens[k].location.start.position + Covered(tokens[k]) + 1,
           tokens[k + 1].location.start.position)

\* The parser after expectBreak where k tokens are consumed.
AfterExpectBreak(k) ==
    expectBreak([Parser(input, tokens, ParserOptions(omitLocations))
                    EXCEPT !.position = k])

\* C15: where the token list is complete and k >= 1 tokens are consumed,
\* expectBreak consumes exactly the next token if it is `;`; else consumes
\* nothing if the next token is `}` or eof or the source text between the
\* last consumed token and the next token holds LF or CR; else throws a
\* SyntaxError `Unexpected token ` with the value of the next token.
C15_ExpectBreak ==
    pc \in {"parse", "done"} =>
        \A k \in 1..(Len(tokens) - 1) :
            LET next == tokens[k + 1]
                q == AfterExpectBreak(k)
            IN IF next.type = ";"
               THEN ~ Failed(q) /\ q.position = k + 1
               ELSE IF \/ next.type \in {"}", "eof"}
                       \/ \E c \in Range(TextBetween(k)) : c \in {"\n", "\r"}
               THEN ~ Failed(q) /\ q.position = k
               ELSE /\ q.err.name = "SyntaxError"
                    /\ q.err.message.text = "Unexpected token "
                    /\ q.err.message.chars = next.value
                    /\ q.position = k

\* C15 witness: `1abc` is refused with `Unexpected token abc`.
C15_Witness ==
    /\ pc = "done"
    /\ input = <<"1", "a", "b", "c">>
    /\ Len(tokens) = 3
    /\ AfterExpectBreak(1).err.name = "SyntaxError"
    /\ result.status = "thrown"
    /\ result.error.name = "SyntaxError"
    /\ result.error.message.text = "Unexpected token "
    /\ result.error.message.chars = <<"a", "b", "c">>

(***************************************************************************)
(* For statements.                                                         *)
(***************************************************************************)
\* The kind of declaration a clause starts with, or none.
DeclarationKindOf(init) ==
    IF \E kind \in variableDeclarationKindTokens : startsWith(init, Chars(kind) \o <<" ">>)
    THEN CHOOSE kind \in variableDeclarationKindTokens : startsWith(init, Chars(kind) \o <<" ">>)
    ELSE "none"

\* A test or update clause is null where it is empty, the expression else.
ClauseParsed(node, clause) ==
    IF clause = <<>> THEN node = Null
    ELSE node.type = "Identifier" /\ node.name = clause

\* C16: `for(init; test; update) {}` parses to a ForStatement whose init is
\* a VariableDeclaration of the kind where init starts with `var`, `let` or
\* `const`, an expression where it starts otherwise and null where it is
\* empty, and whose test and update are null where empty.
C16_ForClauses ==
    pc = "done" =>
        \A init \in ForInits, test \in ForClauses, update \in ForClauses :
            input = ForSource(init, test, update) =>
               /\ result.status = "returned"
               /\ Len(result.node.body) = 1
               /\ LET for == result.node.body[1]
                  IN /\ for.type = "ForStatement"
                     /\ IF init = <<>> THEN for.init = Null
                        ELSE IF DeclarationKindOf(init) # "none"
                        THEN /\ for.init.type = "VariableDeclaration"
                             /\ for.init.kind = Chars(DeclarationKindOf(init))
                        ELSE for.init.type = "AssignmentExpression"
                     /\ ClauseParsed(for.test, test)
                     /\ ClauseParsed(for.update, update)

(***************************************************************************)
(* Try statements.                                                         *)
(***************************************************************************)
\* C17: every TryStatement of a returned tree has a handler or a finalizer,
\* and a try statement with neither catch nor finally, alone or in the block
\* of another, raises the SyntaxError `Missing catch or finally after try`;
\* with a clause the statement has a handler exactly where there is a catch
\* and a finalizer exactly where there is a finally.
C17_TryHandlerOrFinalizer ==
    pc = "done" =>
        /\ result.status = "returned" =>
               LET nodes == Nodes(result.node)
               IN \A n \in 1..Len(nodes) :
                     nodes[n].type = "TryStatement" =>
                        \/ nodes[n].handler.type = "CatchClause"
                        \/ nodes[n].finalizer.type = "BlockStatement"
        /\ \A body \in TryBodies, catch \in TryCatches, finally \in TryFinallies :
               input = TrySource(body, catch, finally) =>
                  IF (catch = <<>> /\ finally = <<>>) \/ body = <<"t", "r", "y", " ", "{", "}">>
                  THEN ThrownWith("SyntaxError", "Missing catch or finally after try")
                  ELSE /\ result.status = "returned"
                       /\ result.node.body[1].type = "TryStatement"
                       /\ (result.node.body[1].handler = Null) = (catch = <<>>)
                       /\ (result.node.body[1].finalizer = Null) = (finally = <<>>)

\* C17 witness: `try {try {}} catch {}` is refused for the inner statement.
C17_Witness ==
    /\ pc = "done"
    /\ input = TrySource(<<"t", "r", "y", " ", "{", "}">>,
                         <<" ", "c", "a", "t", "c", "h", " ", "{", "}">>, <<>>)
    /\ ThrownWith("SyntaxError", "Missing catch or finally after try")

(***************************************************************************)
(* Locations.                                                              *)
(***************************************************************************)
HasLocation(node) == node.extra.defined /\ node.extra.hasLocation

\* The span of the outer node holds the span of the inner node.
SpanContains(outer, inner) ==
    /\ outer.extra.location.start.position <= inner.extra.location.start.position
    /\ inner.extra.location.end.position <= outer.extra.location.end.position

\* C18: in a tree returned with locations every node has a span, and the
\* span of a node holds the span of each of its children.
C18_SpanContainsChildren ==
    (pc = "done" /\ ~ omitLocations /\ result.status = "returned") =>
        LET nodes == Nodes(result.node)
        IN \A n \in 1..Len(nodes) :
              /\ HasLocation(nodes[n])
              /\ LET children == Children(nodes[n])
                 IN \A c \in 1..Len(children) :
                       HasLocation(children[c]) =>
                          SpanContains(nodes[n], children[c])

(***************************************************************************)
(* Trailing commas.                                                        *)
(***************************************************************************)
\* Where a list is read as call arguments, `new` arguments, an array literal
\* or an object literal.
LiteralContexts == {"literal", "call", "new"}

\* The list node of a returned list source and its elements.
ListNodeOf(context) ==
    IF context = "literal" THEN result.node.body[1].expression.right
    ELSE result.node.body[1].expression

\* The value of an object property, the node itself otherwise.
OrValue(node) == IF node.type = "ObjectProperty" THEN node.value ELSE node

ListOf(node) ==
    CASE node.type \in {"CallExpression", "NewExpression"} -> node.arguments
      [] node.type = "ArrayExpression" -> node.elements
      [] node.type = "ObjectExpression" -> node.properties

\* C19: in call arguments, `new` arguments, array literals and object
\* literals an element has the trailingComma flag exactly if it is the last
\* element and a comma and then the closing bracket follow it directly; a
\* list without holes parses unless it is empty with a comma.
C19_TrailingComma ==
    pc = "done" =>
        \A context \in LiteralContexts :
        \A bracket \in ListBrackets(context),
           items \in SeqsUpTo(ListItems, MaxListItems), trailing \in BOOLEAN :
           input = ListSource(context, bracket, items, trailing) =>
              LET elements == ElementsOf(items, trailing)
                  comma == TrailingOf(items, trailing)
              IN /\ ("hole" \notin Range(items) /\ (items # <<>> \/ ~ trailing))
                      => result.status = "returned"
                 /\ result.status = "returned" =>
                      LET list == ListOf(ListNodeOf(context))
                      IN /\ Len(list) = Len(elements)
                         /\ \A i \in 1..Len(list) :
                               /\ IsNode(list[i]) = (elements[i] # "hole")
                               /\ IsNode(list[i]) =>
                                     ( HasTrailingComma(list[i])
                                       = (i = Len(list) /\ comma) )
                               /\ (IsNode(list[i]) /\ elements[i] = "nested") =>
                                     \A j \in 1..Len(ListOf(OrValue(list[i]))) :
                                        ~ HasTrailingComma(ListOf(OrValue(list[i]))[j])

\* C19 witness: in `f(a, ...b,)` the spread element has the flag and the
\* argument before it has not.
C19_Witness ==
    /\ pc = "done"
    /\ input = ListSource("call", "(", <<"a", "rest">>, TRUE)
    /\ result.status = "returned"
    /\ Len(ListOf(ListNodeOf("call"))) = 2
    /\ ~ HasTrailingComma(ListOf(ListNodeOf("call"))[1])
    /\ HasTrailingComma(ListOf(ListNodeOf("call"))[2])

(***************************************************************************)
(* The omitLocations option.                                               *)
(***************************************************************************)
\* The extra data of a node without its location.
WithoutLocation(extra) ==
    IF extra.trailingComma
    THEN [NoExtra EXCEPT !.defined = TRUE, !.trailingComma = TRUE]
    ELSE NoExtra

\* The tree without the locations of its nodes.
RECURSIVE StripLocations(_)
StripLocations(node) ==
    IF ~ IsNode(node) THEN node
    ELSE [f \in DOMAIN node |->
            IF f = "extra" THEN WithoutLocation(node.extra)
            ELSE IF f \in Range(ChildFields(node.type)) THEN StripLocations(node[f])
            ELSE IF f \in Range(ChildLists(node.type))
            THEN [i \in 1..Len(node[f]) |-> StripLocations(node[f][i])]
            ELSE node[f]]

\* The parse of the token list with the option set the other way.
OtherParse == parse(Parser(input, tokens, ParserOptions(~ omitLocations)))

\* C20: a parse succeeds with omitLocations exactly if it succeeds without,
\* with the same error or, locations aside, the same tree; with omitLocations
\* no node of the tree has a location and the stack of node starts is empty.
C20_OmitLocations ==
    pc = "done" =>
        /\ (result.status = "thrown") = Failed(OtherParse)
        /\ result.status = "thrown" => result.error = OtherParse.err
        /\ result.status = "returned" =>
               StripLocations(result.node) = StripLocations(OtherParse.value)
        /\ (omitLocations /\ result.status = "returned") =>
               LET nodes == Nodes(result.node)
               IN \A n \in 1..Len(nodes) : ~ HasLocation(nodes[n])
        /\ omitLocations =>
               parse(Parser(input, tokens, ParserOptions(TRUE))).nodeStartPositions = <<>>

(***************************************************************************)
(* The rewriter of expressions to patterns.                                *)
(***************************************************************************)
\* expressionToPattern on a node, by a parser of the state's input.
Rewrite(node) ==
    expressionToPattern(Parser(input, tokens, ParserOptions(omitLocations)), node)

PatternKinds ==
    {"Identifier", "ObjectPattern", "ArrayPattern", "RestElement", "AssignmentPattern"}

\* C21: for every node of a returned tree, the rewriter returns a node of a
\* Pattern kind unchanged, and where it succeeds on a node, it succeeds on
\* its result and returns that result unchanged.
C21_RewriteIdempotent ==
    (pc = "done" /\ result.status = "returned") =>
        LET nodes == Nodes(result.node)
        IN \A n \in 1..Len(nodes) :
              /\ nodes[n].type \in PatternKinds =>
                    /\ ~ Failed(Rewrite(nodes[n]))
                    /\ Rewrite(nodes[n]).value = nodes[n]
              /\ ~ Failed(Rewrite(nodes[n])) =>
                    /\ ~ Failed(Rewrite(Rewrite(nodes[n]).value))
                    /\ Rewrite(Rewrite(nodes[n]).value).value = Rewrite(nodes[n]).value

\* C21 witness: the array literal of `x = [a, [d, ...c], ...b]` is rewritten
\* to an array pattern, on which the rewriter changes nothing.
C21_Witness ==
    /\ pc = "done"
    /\ input = ListSource("literal", "[", <<"a", "nested", "rest">>, FALSE)
    /\ result.status = "returned"
    /\ ListNodeOf("literal").type = "ArrayExpression"
    /\ ~ Failed(Rewrite(ListNodeOf("literal")))
    /\ Rewrite(ListNodeOf("literal")).value.type = "ArrayPattern"
    /\ Rewrite(ListNodeOf("literal")).value.elements[3].type = "RestElement"
    /\ Rewrite(Rewrite(ListNodeOf("literal")).value).value
          = Rewrite(ListNodeOf("literal")).value

(***************************************************************************)
(* Arrow functions.                                                        *)
(***************************************************************************)
\* The node an item of a list is parsed and rewritten to, as a parameter.
IsParameterFor(node, item) ==
    CASE item = "a" -> node.type = "Identifier" /\ node.name = <<"a">>
      [] item = "nested" ->
            /\ node.type = "ArrayPattern"
            /\ Len(node.elements) = 2
            /\ node.elements[1].type = "Identifier"
            /\ node.elements[2].type = "RestElement"
      [] item = "rest" -> node.type = "RestElement"
      [] OTHER -> FALSE

\* The only statement of the returned tree is the expression: an arrow
\* function whose body is the identifier.
IsArrowStatement(name) ==
    /\ result.status = "returned"
    /\ Len(result.node.body) = 1
    /\ result.node.body[1].type = "ExpressionStatement"
    /\ result.node.body[1].expression.type = "ArrowFunctionExpression"
    /\ result.node.body[1].expression.body.type = "Identifier"
    /\ result.node.body[1].expression.body.name = name

\* C22: `a => b` parses to an ArrowFunctionExpression with the parameter a
\* and the body b, and `(items) => e`, for no, one or more items, to one
\* whose parameters are the items in order, each as a pattern, and whose
\* body is e.
C22_ArrowFunctions ==
    pc = "done" =>
        /\ input = <<"a", " ", "=", ">", " ", "b">> =>
              /\ IsArrowStatement(<<"b">>)
              /\ Len(result.node.body[1].expression.params) = 1
              /\ IsParameterFor(result.node.body[1].expression.params[1], "a")
        /\ \A items \in SeqsUpTo({"a", "nested"}, MaxListItems) :
              input = ListSource("arrow", "(", items, FALSE) =>
                 /\ IsArrowStatement(<<"e">>)
                 /\ Len(result.node.body[1].expression.params) = Len(items)
                 /\ \A i \in 1..Len(items) :
                       IsParameterFor(result.node.body[1].expression.params[i], items[i])

(***************************************************************************)
(* Sharing of nodes.                                                       *)
(***************************************************************************)
\* The kinds of node that are made of one token.  The cursor of the parser
\* only moves forward, so a token is made a node once: two places of a tree
\* that hold a node of the same token hold the same node object.
TokenNodeKinds ==
    {"Identifier", "NumericLiteral", "StringLiteral", "BooleanLiteral",
     "NullLiteral", "TemplateLiteral", "ThisExpression", "SuperExpression"}

IsTokenNode(node) == node.type \in TokenNodeKinds /\ HasLocation(node)

\* C23: no node of a tree returned with locations is reached along two
\* paths from the root: no two places of the tree hold the node of the same
\* token.
C23_NoSharedNode ==
    (pc = "done" /\ ~ omitLocations /\ result.status = "returned") =>
        LET leaves == SelectSeq(Nodes(result.node), IsTokenNode)
        IN \A i, j \in 1..Len(leaves) :
              i < j => leaves[i].extra.location.start.position
                         # leaves[j].extra.location.start.position

(***************************************************************************)
(* Parameter lists.                                                        *)
(***************************************************************************)
FunctionKinds ==
    {"FunctionDeclaration", "FunctionExpression", "ObjectMethod",
     "ArrowFunctionExpression"}

\* In every parameter list of the tree a rest element is last and has no
\* trailingComma flag.
RestParameterLast(tree) ==
    LET nodes == Nodes(tree)
    IN \A n \in 1..Len(nodes) :
          nodes[n].type \in FunctionKinds =>
             \A i \in 1..Len(nodes[n].params) :
                nodes[n].params[i].type = "RestElement" =>
                   /\ i = Len(nodes[n].params)
                   /\ ~ HasTrailingComma(nodes[n].params[i])

\* The token list with each `=` that a `>` follows directly made one Arrow
\* token, the token that parseExpression2 and parseArrowFunctionExpression
\* ask for.
RECURSIVE WithArrows(_)
WithArrows(list) ==
    IF Len(list) < 2 THEN list
    ELSE IF /\ list[1].type = "=" /\ list[2].type = ">"
            /\ list[2].location.start.position = list[1].location.start.position + 1
    THEN <<[type |-> "=>", value |-> <<"=", ">">>,
            location |-> [start |-> list[1].location.start,
                          end |-> list[2].location.end]]>>
         \o WithArrows(SubSeq(list, 3, Len(list)))
    ELSE <<Head(list)>> \o WithArrows(Tail(list))

\* The parse of the state's tokens with Arrow tokens.
ArrowParse == parse(Parser(input, WithArrows(tokens), ParserOptions(omitLocations)))

\* The parameter lists of returned trees, and the lists of function
\* declarations that are refused.
C24_FunctionParameters ==
    pc = "done" =>
        /\ result.status = "returned" => RestParameterLast(result.node)
        /\ \A items \in SeqsUpTo(ListItems \ {"hole"}, MaxListItems), trailing \in BOOLEAN :
              (input = ListSource("params", "(", items, trailing) /\ RestNotLast(items)) =>
                 result.status = "thrown" /\ result.error.name = "SyntaxError"

\* The parameter lists that parseExpression2 makes of a parenthesised
\* sequence before an Arrow token.
C24_ArrowParameters ==
    pc = "done" =>
        \A items \in SeqsUpTo(ListItems \ {"hole"}, MaxListItems), trailing \in BOOLEAN :
           input = ListSource("arrow", "(", items, trailing) =>
              /\ RestNotLast(items) =>
                    Failed(ArrowParse) /\ ArrowParse.err.name = "SyntaxError"
              /\ ~ Failed(ArrowParse) => RestParameterLast(ArrowParse.value)

LineFeedsBefore(k) == Cardinality({ i \in 1..k : input[i] = "\n" })

\* The offset of the first character of the line that holds offset k.
LineStart(k) ==
    LET feeds == { i \in 1..k : input[i] = "\n" }
    IN IF feeds = {} THEN 0 ELSE CHOOSE i \in feeds : \A j \in feeds : j <= i

\* The start of a token is at the line and column of its start offset.
StartTracked(token) ==
    LET start == token.location.start
    IN /\ start.line = LineFeedsBefore(start.position)
       /\ start.column = start.position - LineStart(start.position)

\* C25: the start line of every token is the number of line feeds before its
\* start offset and its start column the number of characters between the
\* last line feed before it (or the start of the input) and its start, also
\* for the tokens after a template literal that spans several lines.
C25_LineColumn == \A i \in 1..Len(tokens) : StartTracked(tokens[i])

\* The source is not empty and holds white space only.
WhitespaceOnly ==
    Len(input) > 0 /\ \A i \in 1..Len(input) : input[i] \in WhitespaceChars

\* C26: for a non-empty source of spaces, tabs, carriage returns and line
\* feeds only, tokenise raises nothing and returns the eof token alone, and
\* parse returns a Program with an empty body.
C26_WhitespaceOnly ==
    (WhitespaceOnly /\ pc # "new") =>
        /\ pc # "thrown"
        /\ pc \in {"parse", "done"} => (Len(tokens) = 1 /\ tokens[1].type = "eof")
        /\ pc = "done" =>
              /\ result.status = "returned"
              /\ result.node.type = "Program"
              /\ result.node.body = <<>>

\* The parser after parse() on the tokens of the input, with the cursor it
\* ends with; the cursor is only ever incremented (Parser.advance).
ParserAfterParse == parse(Parser(input, tokens, ParserOptions(omitLocations)))

\* C27: for the token vector of every lexed source, parse ends by returning a
\* Program or by raising an error, and the cursor stays below the number of
\* tokens throughout: the eof token is never consumed.
C27_CursorBound ==
    pc = "done" =>
        /\ result.status \in {"returned", "thrown"}
        /\ result.status = "returned" => result.node.type = "Program"
        /\ ParserAfterParse.position >= 0
        /\ ParserAfterParse.position < Len(tokens)

\* node is the identifier of the given name.
IdentifierNamed(node, name) == node.type = "Identifier" /\ node.name = <<name>>

\* e is the conditional expression op(a, b) ? c : d.
ConditionalOver(e, op) ==
    /\ e.type = "ConditionalExpression"
    /\ GroupedNode(e.test, op)
    /\ IdentifierNamed(e.test.left, "a")
    /\ IdentifierNamed(e.test.right, "b")
    /\ IdentifierNamed(e.consequent, "c")
    /\ IdentifierNamed(e.alternate, "d")

\* No binary or logical expression of the tree has a conditional expression
\* as its right operand.
NoConditionalOperand(tree) ==
    LET nodes == Nodes(tree)
    IN \A n \in 1..Len(nodes) :
          nodes[n].type \in {"BinaryExpression", "LogicalExpression"}
              => nodes[n].right.type # "ConditionalExpression"

\* C28: the conditional operator binds more loosely than every binary and
\* logical operator: a op b ? c : d parses to the conditional expression
\* with test op(a, b), and in the tree of a source without parentheses no
\* binary or logical expression has a conditional expression as its right
\* operand.
C28_ConditionalLoosest ==
    pc = "done" =>
        /\ \A op \in groupedOperatorTokens :
              input = ConditionalSource(op) =>
                  /\ ParsesToExpression
                  /\ ConditionalOver(result.node.body[1].expression, op)
        /\ (result.status = "returned" /\ \A i \in 1..Len(input) : input[i] # "(")
              => NoConditionalOperand(result.node)

\* e is the member expression object.property of two names, not computed
\* unless said so.
MemberOf(e, object, property, computed) ==
    /\ e.type = "MemberExpression"
    /\ IdentifierNamed(e.object, object)
    /\ IdentifierNamed(e.property, property)
    /\ e.computed = computed

\* e is the call of the name callee with the one argument named argument.
CallOf(e, callee, argument) ==
    /\ e.type = "CallExpression"
    /\ IdentifierNamed(e.callee, callee)
    /\ Len(e.arguments) = 1
    /\ IdentifierNamed(e.arguments[1], argument)

\* e is the sum of some left operand and the number 1.
PlusOne(e) ==
    /\ e.type = "BinaryExpression"
    /\ e.operator = <<"+">>
    /\ e.right.type = "NumericLiteral"
    /\ e.right.value = 1

\* The property of every member access of the tree that is not computed is
\* one name.
SingleNameProperties(tree) ==
    LET nodes == Nodes(tree)
    IN \A n \in 1..Len(nodes) :
          (nodes[n].type = "MemberExpression" /\ ~ nodes[n].computed)
              => nodes[n].property.type = "Identifier"

\* C29: postfix forms chain to the left and can be operands: a.b.c is the
\* member c of the member expression a.b, f(x)(y) is a call whose callee is
\* the call f(x), a[i] + 1 and f(x) + 1 are binary expressions whose left
\* operand is the member or call expression, and the property of a member
\* access that is not computed is the single name after the dot.
C29_PostfixChaining ==
    pc = "done" =>
        /\ input \in PostfixChainSources \ {MemberOfSum} => ParsesToExpression
        /\ input = MemberChain =>
              LET e == result.node.body[1].expression
              IN /\ e.type = "MemberExpression"
                 /\ MemberOf(e.object, "a", "b", FALSE)
                 /\ IdentifierNamed(e.property, "c")
                 /\ ~ e.computed
        /\ input = CallChain =>
              LET e == result.node.body[1].expression
              IN /\ e.type = "CallExpression"
                 /\ CallOf(e.callee, "f", "x")
                 /\ Len(e.arguments) = 1
                 /\ IdentifierNamed(e.arguments[1], "y")
        /\ input = MemberOperand =>
              LET e == result.node.body[1].expression
              IN PlusOne(e) /\ MemberOf(e.left, "a", "i", TRUE)
        /\ input = CallOperand =>
              LET e == result.node.body[1].expression
              IN PlusOne(e) /\ CallOf(e.left, "f", "x")
        /\ result.status = "returned" => SingleNameProperties(result.node)

\* The member text starts with the given characters.
StartsWith(member, prefix) ==
    Len(member) >= Len(prefix) /\ SubSeq(member, 1, Len(prefix)) = prefix

\* The kind of method the member text writes: get or set where the word is
\* followed by a key, method otherwise.
WrittenKind(member) ==
    IF StartsWith(member, <<"g", "e", "t", " ">>) THEN <<"g", "e", "t">>
    ELSE IF StartsWith(member, <<"s", "e", "t", " ">>) THEN <<"s", "e", "t">>
    ELSE <<"m", "e", "t", "h", "o", "d">>

\* The first member of the object literal of x = {member}.
FirstMember == result.node.body[1].expression.right.properties[1]

\* C30: an ObjectMethod of an object literal is computed exactly when its key
\* is written in brackets, is neither a generator nor async, and its kind is
\* get or set exactly when the member starts with that word followed by a
\* key, and method otherwise.
C30_ObjectMethod ==
    pc = "done" =>
        \A member \in ObjectMembers :
            ( /\ input = ObjectSource(member)
              /\ result.status = "returned"
              /\ FirstMember.type = "ObjectMethod" )
            => /\ FirstMember.computed = StartsWith(member, <<"[">>)
               /\ ~ FirstMember.generator
               /\ ~ FirstMember.async
               /\ FirstMember.kind = WrittenKind(member)

====
